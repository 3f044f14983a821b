------------------------- MODULE StewardshipProofs -------------------------
(***************************************************************************)
(* Theorems about KnowledgeOverlays, for any aliases, any number of        *)
(* versions and any number of handlers cut short, and about Stewardship,   *)
(* for any number of consoles besides: it implements KnowledgeOverlays, so *)
(* that the theorems about overlays hold under it, and what the queue says *)
(* was earned.                                                             *)
(***************************************************************************)
EXTENDS Stewardship, FiniteSetTheorems, TLAPS

-----------------------------------------------------------------------------
(* The inductive invariant.                                                *)

\* No two versions are active.
OneActive == \A v, w \in OverlayIds :
    status[v] = "active" /\ status[w] = "active" => v = w

\* What an approval carries, from reading the active overlay to activating
\* the copy: it holds the entries of whatever is active, and once saved it is
\* what the new version has; the new version itself is not active yet.
ApprovalCarries ==
    /\ handler.at \in {"approve_entries", "approve_activate"} =>
          \A v \in OverlayIds : status[v] = "active" => entries[v] \subseteq handler.carried
    /\ ~Quiet => status[handler.version] = "validated"
    /\ handler.at = "approve_activate" =>
          entries[handler.version] = handler.carried

OverlayInv == OverlayTypeOK /\ OneActive /\ ApprovalCarries

-----------------------------------------------------------------------------
(* Lemmas.                                                                 *)

\* With at most one version active, the last active row is that one.
LEMMA TheActiveOverlay ==
    OneActive => \A v \in OverlayIds : status[v] = "active" => ActiveOverlay = v
  <1> SUFFICES ASSUME OneActive, NEW v \in OverlayIds, status[v] = "active"
               PROVE  ActiveOverlay = v
    OBVIOUS
  <1>1. WithStatus("active") = {v}
    BY DEF OneActive, WithStatus
  <1>2. v <= v
    BY DEF OverlayIds
  <1> QED
    BY <1>1, <1>2 DEF ActiveOverlay

\* Without one it is 0, which is no id.
LEMMA NoActiveOverlay ==
    ASSUME \A v \in OverlayIds : status[v] # "active"
    PROVE  ActiveOverlay = 0
  BY DEF ActiveOverlay, WithStatus

\* The active overlay is 0 or an active version.
LEMMA ActiveOverlayIsActive ==
    ASSUME OneActive
    PROVE  ActiveOverlay # 0 =>
              ActiveOverlay \in OverlayIds /\ status[ActiveOverlay] = "active"
  BY TheActiveOverlay, NoActiveOverlay

\* An activation makes the version active and demotes every other one.
LEMMA ActivatedStatuses ==
    ASSUME NEW v \in OverlayIds, status \in [OverlayIds -> OverlayStatuses]
    PROVE  /\ Activated(v) \in [OverlayIds -> OverlayStatuses]
           /\ \A w \in OverlayIds : Activated(v)[w] = "active" <=> w = v
           /\ \A w \in OverlayIds : status[w] = "archived" /\ w # v =>
                 Activated(v)[w] = "archived"
  BY DEF Activated, OverlayStatuses

\* Inserting a version assigns a new id the status validated.
LEMMA InsertStep ==
    ASSUME OverlayInv, NEW at, NEW carried, Insert(at, carried)
    PROVE  \E v \in OverlayIds :
              /\ status[v] = "none"
              /\ status' = [status EXCEPT ![v] = "validated"]
              /\ handler' = Busy(at, v, carried)
              /\ UNCHANGED <<entries, stored, faults, everActive>>

  BY DEF Insert, NextId

-----------------------------------------------------------------------------
(* Type correctness.                                                       *)

\* Every step keeps the types of the overlay tables.
LEMMA TypeStep ==
    ASSUME OverlayInv, [Next]_overlayVars
    PROVE  OverlayTypeOK'
  <1> USE OverlayBoundsAssumption
  <1> USE DEF OverlayTypeOK, OverlayInv, Quiet
  <1>1. ASSUME NEW v \in OverlayIds, Activate(v) PROVE OverlayTypeOK'
    BY <1>1, ActivatedStatuses DEF Activate
  <1>2. ASSUME NEW v \in OverlayIds, Deactivate(v) PROVE OverlayTypeOK'
    BY <1>2 DEF Deactivate, OverlayStatuses
  <1>3. ASSUME NEW v \in OverlayIds, Archive(v) PROVE OverlayTypeOK'
    BY <1>3 DEF Archive, OverlayStatuses
  <1>4. ASSUME Rollback PROVE OverlayTypeOK'
    <2>1. CASE WithStatus("validated") \ {ActiveOverlay} = {}
      BY <1>4, <2>1 DEF Rollback, OverlayStatuses
    <2>2. CASE WithStatus("validated") \ {ActiveOverlay} # {}
      <3>1. PICK last \in OverlayIds :
                status' = Activated(last) /\ everActive' = everActive \cup {last}
        BY <1>4, <2>2 DEF Rollback, WithStatus
      <3> QED
        BY <1>4, <3>1, ActivatedStatuses DEF Rollback
    <2> QED
      BY <2>1, <2>2
  <1>5. ASSUME Create PROVE OverlayTypeOK'
    <2>1. PICK rows \in SUBSET Aliases : Insert("create_entries", rows)
      BY <1>5 DEF Create
    <2>2. PICK v \in OverlayIds :
              /\ status' = [status EXCEPT ![v] = "validated"]
              /\ handler' = Busy("create_entries", v, rows)
              /\ UNCHANGED <<entries, stored, faults, everActive>>

      BY <2>1, InsertStep
    <2> QED
      BY <2>2 DEF Busy, Handler, OverlayStatuses
  <1>6. ASSUME Approve PROVE OverlayTypeOK'
    <2>1. PICK added \in (SUBSET Aliases) \ {{}} :
              Insert("approve_entries",
                     added \cup (IF ActiveOverlay = 0 THEN {} ELSE entries[ActiveOverlay]))
      BY <1>6 DEF Approve
    <2>2. (IF ActiveOverlay = 0 THEN {} ELSE entries[ActiveOverlay]) \subseteq Aliases
      BY ActiveOverlayIsActive
    <2>3. PICK carried \in SUBSET Aliases : Insert("approve_entries", carried)
      BY <2>1, <2>2
    <2>4. PICK v \in OverlayIds :
              /\ status' = [status EXCEPT ![v] = "validated"]
              /\ handler' = Busy("approve_entries", v, carried)
              /\ UNCHANGED <<entries, stored, faults, everActive>>

      BY <2>3, InsertStep
    <2> QED
      BY <2>4 DEF Busy, Handler, OverlayStatuses
  <1>7. ASSUME SaveEntries PROVE OverlayTypeOK'
    BY <1>7 DEF SaveEntries, Handler, Idle
  <1>8. ASSUME ActivateApproved PROVE OverlayTypeOK'
    BY <1>8, ActivatedStatuses DEF ActivateApproved, Handler, Idle
  <1>9. ASSUME CutShort PROVE OverlayTypeOK'
    BY <1>9 DEF CutShort, Handler, Idle
  <1>10. CASE UNCHANGED overlayVars
    BY <1>10 DEF overlayVars
  <1> QED
    BY <1>1, <1>2, <1>3, <1>4, <1>5, <1>6, <1>7, <1>8, <1>9, <1>10 DEF Next

-----------------------------------------------------------------------------
(* One active version, and what an approval carries.                       *)

\* Every step keeps the number of active versions at most one and the copy an
\* approval carries complete.
LEMMA ActiveStep ==
    ASSUME OverlayInv, [Next]_overlayVars
    PROVE  OneActive' /\ ApprovalCarries'
  <1> USE DEF OverlayTypeOK, OverlayInv, OneActive, ApprovalCarries, Quiet
  <1>1. ASSUME NEW v \in OverlayIds, Activate(v) PROVE OneActive' /\ ApprovalCarries'
    BY <1>1, ActivatedStatuses DEF Activate
  <1>2. ASSUME NEW v \in OverlayIds, Deactivate(v) PROVE OneActive' /\ ApprovalCarries'
    BY <1>2 DEF Deactivate
  <1>3. ASSUME NEW v \in OverlayIds, Archive(v) PROVE OneActive' /\ ApprovalCarries'
    BY <1>3 DEF Archive
  <1>4. ASSUME Rollback PROVE OneActive' /\ ApprovalCarries'
    <2>1. CASE WithStatus("validated") \ {ActiveOverlay} = {}
      BY <1>4, <2>1 DEF Rollback
    <2>2. CASE WithStatus("validated") \ {ActiveOverlay} # {}
      <3>1. PICK last \in OverlayIds : status' = Activated(last)
        BY <1>4, <2>2 DEF Rollback, WithStatus
      <3> QED
        BY <1>4, <3>1, ActivatedStatuses DEF Rollback
    <2> QED
      BY <2>1, <2>2
  <1>5. ASSUME Create PROVE OneActive' /\ ApprovalCarries'
    <2>1. PICK rows \in SUBSET Aliases : Insert("create_entries", rows)
      BY <1>5 DEF Create
    <2>2. PICK v \in OverlayIds :
              /\ status[v] = "none"
              /\ status' = [status EXCEPT ![v] = "validated"]
              /\ handler' = Busy("create_entries", v, rows)
              /\ UNCHANGED entries
      BY <2>1, InsertStep
    <2> QED
      BY <2>2 DEF Busy
  <1>6. ASSUME Approve PROVE OneActive' /\ ApprovalCarries'
    <2>1. PICK added \in (SUBSET Aliases) \ {{}} :
              Insert("approve_entries",
                     added \cup (IF ActiveOverlay = 0 THEN {} ELSE entries[ActiveOverlay]))
      BY <1>6 DEF Approve
    <2> DEFINE carried ==
            added \cup (IF ActiveOverlay = 0 THEN {} ELSE entries[ActiveOverlay])
    <2>2. \A w \in OverlayIds : status[w] = "active" => entries[w] \subseteq carried
      <3> SUFFICES ASSUME NEW w \in OverlayIds, status[w] = "active"
                   PROVE  entries[w] \subseteq carried
        OBVIOUS
      <3>1. ActiveOverlay = w
        BY TheActiveOverlay
      <3>2. w # 0
        BY DEF OverlayIds
      <3> QED
        BY <3>1, <3>2
    <2> HIDE DEF carried
    <2>3. PICK v \in OverlayIds :
              /\ status[v] = "none"
              /\ status' = [status EXCEPT ![v] = "validated"]
              /\ handler' = Busy("approve_entries", v, carried)
              /\ UNCHANGED entries
      BY <2>1, InsertStep DEF carried
    <2> QED
      BY <2>2, <2>3 DEF Busy
  <1>7. ASSUME SaveEntries PROVE OneActive' /\ ApprovalCarries'
    <2>1. handler.version \in OverlayIds
      BY <1>7 DEF SaveEntries
    <2>2. CASE handler.at = "create_entries"
      BY <1>7, <2>2 DEF SaveEntries, Idle
    <2>3. CASE handler.at = "approve_entries"
      BY <1>7, <2>1, <2>3 DEF SaveEntries, Handler
    <2> QED
      BY <1>7, <2>2, <2>3 DEF SaveEntries
  <1>8. ASSUME ActivateApproved PROVE OneActive' /\ ApprovalCarries'
    BY <1>8, ActivatedStatuses DEF ActivateApproved, Idle
  <1>9. ASSUME CutShort PROVE OneActive' /\ ApprovalCarries'
    BY <1>9 DEF CutShort, Idle
  <1>10. CASE UNCHANGED overlayVars
    BY <1>10 DEF overlayVars
  <1> QED
    BY <1>1, <1>2, <1>3, <1>4, <1>5, <1>6, <1>7, <1>8, <1>9, <1>10 DEF Next

\* The invariant holds of the empty tables.
LEMMA OverlayInvInit == Init => OverlayInv
  <1> SUFFICES ASSUME Init PROVE OverlayInv
    OBVIOUS
  <1> USE DEF Init, Idle, Quiet
  <1>1. OverlayTypeOK
    <2>1. handler \in Handler
      BY DEF Handler
    <2>2. faults \in 0..MaxFaults
      BY OverlayBoundsAssumption
    <2>3. /\ status \in [OverlayIds -> OverlayStatuses]
          /\ entries \in [OverlayIds -> SUBSET Aliases]
      BY DEF OverlayStatuses
    <2> QED
      BY <2>1, <2>2, <2>3 DEF OverlayTypeOK
  <1>2. OneActive
    BY DEF OneActive
  <1>3. ApprovalCarries
    BY DEF ApprovalCarries
  <1> QED
    BY <1>1, <1>2, <1>3 DEF OverlayInv

\* The invariant is inductive, hence holds in every reachable state.
THEOREM OverlaysConsistent == Spec => []OverlayInv
  <1>1. OverlayInv /\ [Next]_overlayVars => OverlayInv'
    BY TypeStep, ActiveStep DEF OverlayInv
  <1> QED
    BY <1>1, OverlayInvInit, PTL DEF Spec

\* The tables keep their types, for every number of versions.
THEOREM OverlayTypeCorrect == Spec => []OverlayTypeOK
  <1>1. OverlayInv => OverlayTypeOK
    BY DEF OverlayInv
  <1> QED
    BY <1>1, OverlaysConsistent, PTL

\* Never are two versions active.
THEOREM AtMostOneActiveHolds == Spec => []AtMostOneActive
  <1>1. OverlayInv => AtMostOneActive
    <2> SUFFICES ASSUME OverlayInv PROVE AtMostOneActive
      OBVIOUS
    <2>1. CASE WithStatus("active") = {}
      BY <2>1, FS_EmptySet DEF AtMostOneActive
    <2>2. CASE WithStatus("active") # {}
      <3>1. PICK v \in OverlayIds : status[v] = "active"
        BY <2>2 DEF WithStatus
      <3>2. WithStatus("active") = {v}
        BY <3>1 DEF WithStatus, OverlayInv, OneActive
      <3> QED
        BY <3>2, FS_Singleton DEF AtMostOneActive
    <2> QED
      BY <2>1, <2>2
  <1> QED
    BY <1>1, OverlaysConsistent, PTL

\* An approved canonical gap adds to what was active and drops nothing.
THEOREM ApprovalsKeepEntries == Spec => ApprovalKeepsEntries
  <1> DEFINE Kept == (ActiveOverlay # 0 /\ ActiveOverlay' # 0 /\ handler.at = "approve_activate")
                     => entries[ActiveOverlay] \subseteq entries'[ActiveOverlay']
  <1>1. OverlayInv /\ OverlayInv' /\ [Next]_overlayVars => [Kept]_overlayVars
    <2> SUFFICES ASSUME OverlayInv, OverlayInv', [Next]_overlayVars,
                        ActiveOverlay # 0, handler.at = "approve_activate"
                 PROVE  entries[ActiveOverlay] \subseteq entries'[ActiveOverlay']
      OBVIOUS
    <2>1. ActiveOverlay \in OverlayIds /\ status[ActiveOverlay] = "active"
      BY ActiveOverlayIsActive DEF OverlayInv
    <2>2. CASE ActivateApproved
      <3>1. handler.version \in OverlayIds
        BY DEF OverlayInv, OverlayTypeOK, Quiet
      <3>2. status'[handler.version] = "active"
        BY <2>2, <3>1, ActivatedStatuses DEF ActivateApproved, OverlayInv, OverlayTypeOK
      <3>3. ActiveOverlay' = handler.version
        <4>1. (OneActive => \A v \in OverlayIds : status[v] = "active" => ActiveOverlay = v)'
          BY TheActiveOverlay, PTL
        <4> QED
          BY <3>1, <3>2, <4>1 DEF OverlayInv
      <3> QED
        BY <2>1, <2>2, <3>3 DEF ActivateApproved, OverlayInv, ApprovalCarries
    <2>3. CASE CutShort \/ UNCHANGED overlayVars
      BY <2>3 DEF CutShort, overlayVars, ActiveOverlay, WithStatus
    <2>4. ActivateApproved \/ CutShort \/ UNCHANGED overlayVars
      BY DEF Next, Activate, Deactivate, Archive, Rollback, Create, Approve,
             SaveEntries, Quiet
    <2> QED
      BY <2>2, <2>3, <2>4
  <1> QED
    BY <1>1, OverlaysConsistent, PTL DEF Spec, ApprovalKeepsEntries

\* An archived version stays archived.
THEOREM ArchivesFinal == Spec => ArchivedForGood
  <1>1. OverlayInv /\ [Next]_overlayVars =>
            [\A v \in OverlayIds : status[v] = "archived" => status'[v] = "archived"]_overlayVars
    <2> SUFFICES ASSUME OverlayInv, [Next]_overlayVars,
                        NEW v \in OverlayIds, status[v] = "archived"
                 PROVE  status'[v] = "archived"
      OBVIOUS
    <2> USE DEF OverlayInv, OverlayTypeOK, Quiet
    <2>1. ASSUME NEW w \in OverlayIds, Activate(w) \/ Deactivate(w) \/ Archive(w)
          PROVE  status'[v] = "archived"
      BY <2>1, ActivatedStatuses DEF Activate, Activatable, Deactivate, Archive
    <2>2. ASSUME Rollback PROVE status'[v] = "archived"
      <3>1. ActiveOverlay \in OverlayIds /\ status[ActiveOverlay] = "active"
        BY <2>2, ActiveOverlayIsActive DEF Rollback
      <3>2. CASE WithStatus("validated") \ {ActiveOverlay} = {}
        BY <2>2, <3>1, <3>2 DEF Rollback
      <3>3. CASE WithStatus("validated") \ {ActiveOverlay} # {}
        <4>1. PICK last \in OverlayIds : status[last] = "validated" /\ status' = Activated(last)
          BY <2>2, <3>3 DEF Rollback, WithStatus
        <4> QED
          BY <4>1, ActivatedStatuses
      <3> QED
        BY <3>2, <3>3
    <2>3. ASSUME NEW at, NEW carried, Insert(at, carried) PROVE status'[v] = "archived"
      BY <2>3, InsertStep
    <2>4. ASSUME ActivateApproved PROVE status'[v] = "archived"
      BY <2>4, ActivatedStatuses DEF ActivateApproved, ApprovalCarries
    <2>5. CASE SaveEntries \/ CutShort \/ UNCHANGED overlayVars
      BY <2>5 DEF SaveEntries, CutShort, overlayVars
    <2> QED
      BY <2>1, <2>2, <2>3, <2>4, <2>5 DEF Next, Create, Approve
  <1> QED
    BY <1>1, OverlaysConsistent, PTL DEF Spec, ArchivedForGood

-----------------------------------------------------------------------------
(* Versions without entries.                                               *)

\* The versions whose entries were never saved.
Half == {v \in OverlayIds : status[v] # "none" /\ v \notin stored}

\* What a handler is about to store is the only version it can leave half
\* created: it works on one version, and an approval has stored its entries
\* before it activates.
HalfInv ==
    /\ Quiet => handler.version = 0
    /\ handler.at = "approve_activate" => handler.version \in stored
    /\ HalfCreatedByFaults

\* An element more is at most one more to count.
LEMMA OneMore ==
    ASSUME NEW H, NEW x, IsFiniteSet(H), Cardinality(H) \in Nat
    PROVE  /\ IsFiniteSet(H \cup {x})
           /\ Cardinality(H \cup {x}) <= Cardinality(H) + 1
  <1>1. /\ IsFiniteSet(H \cup {x})
        /\ \/ Cardinality(H \cup {x}) = Cardinality(H)
           \/ Cardinality(H \cup {x}) = Cardinality(H) + 1
    BY FS_AddElement
  <1>2. Cardinality(H) <= Cardinality(H) + 1
    OBVIOUS
  <1>3. CASE Cardinality(H \cup {x}) = Cardinality(H)
    BY ONLY <1>1, <1>2, <1>3
  <1>4. CASE Cardinality(H \cup {x}) = Cardinality(H) + 1
    BY <1>1, <1>4
  <1> QED
    BY <1>1, <1>3, <1>4

\* With fewer half-created versions the count stays within the faults.
LEMMA FewerHalves ==
    ASSUME OverlayTypeOK, NEW S \in SUBSET Half, NEW T \in SUBSET S,
           Cardinality(S) <= faults
    PROVE  IsFiniteSet(S) /\ Cardinality(S) \in Nat /\ Cardinality(T) <= faults
  <1>1. IsFiniteSet(OverlayIds)
    BY FS_Interval, OverlayBoundsAssumption DEF OverlayIds
  <1>2. IsFiniteSet(S)
    BY <1>1, FS_Subset DEF Half
  <1>3. IsFiniteSet(T) /\ Cardinality(T) <= Cardinality(S)
    BY <1>2, FS_Subset
  <1>4. Cardinality(S) \in Nat /\ Cardinality(T) \in Nat /\ faults \in Nat
    BY <1>2, <1>3, FS_CardinalityType, OverlayBoundsAssumption DEF OverlayTypeOK
  <1> QED
    BY <1>2, <1>3, <1>4

\* A change of status of an assigned version creates no half version.
LEMMA StatusStep ==
    ASSUME OverlayInv, HalfInv, UNCHANGED <<stored, handler, faults>>,
           \A w \in OverlayIds : status[w] = "none" => status'[w] = "none"
    PROVE  HalfInv'
  <1> DEFINE S == Half \ {handler.version}
             T == Half' \ {handler.version}
  <1>1. T \subseteq S
    BY DEF Half
  <1>2. Cardinality(T) <= faults
    BY <1>1, FewerHalves DEF HalfInv, HalfCreatedByFaults, Half, OverlayInv
  <1> QED
    BY <1>2 DEF HalfInv, HalfCreatedByFaults, Half, Quiet

\* Every step keeps the count.
LEMMA HalfStep ==
    ASSUME OverlayInv, HalfInv, [Next]_overlayVars
    PROVE  HalfInv'
  <1> DEFINE S == Half \ {handler.version}
  <1>0. Cardinality(S) <= faults /\ S \in SUBSET Half
    BY DEF HalfInv, HalfCreatedByFaults, Half
  <1>1. ASSUME NEW v \in OverlayIds, Activate(v) \/ Deactivate(v) \/ Archive(v)
        PROVE  HalfInv'
    <2>1. \A w \in OverlayIds : status[w] = "none" => status'[w] = "none"
      BY <1>1 DEF Activate, Activatable, Activated, Deactivate, Archive,
                  OverlayInv, OverlayTypeOK
    <2> QED
      BY <1>1, <2>1, StatusStep DEF Activate, Deactivate, Archive
  <1>2. ASSUME Rollback PROVE HalfInv'
    <2>1. ActiveOverlay \in OverlayIds /\ status[ActiveOverlay] = "active"
      BY <1>2, ActiveOverlayIsActive DEF Rollback, OverlayInv
    <2>2. \A w \in OverlayIds : status[w] = "none" => status'[w] = "none"
      <3>1. CASE status' = [status EXCEPT ![ActiveOverlay] = "validated"]
        BY <2>1, <3>1 DEF OverlayInv, OverlayTypeOK
      <3>2. ASSUME NEW last \in OverlayIds, status[last] = "validated",
                   status' = Activated(last)
            PROVE  \A w \in OverlayIds : status[w] = "none" => status'[w] = "none"
        BY <3>2 DEF Activated
      <3> QED
        BY <1>2, <3>1, <3>2 DEF Rollback, WithStatus
    <2> QED
      BY <1>2, <2>2, StatusStep DEF Rollback
  <1>3. ASSUME NEW at \in {"create_entries", "approve_entries"}, NEW carried,
               Insert(at, carried), Quiet
        PROVE  HalfInv'
    <2>1. PICK v \in OverlayIds :
              /\ status' = [status EXCEPT ![v] = "validated"]
              /\ handler' = Busy(at, v, carried)
              /\ UNCHANGED <<entries, stored, faults, everActive>>
      BY <1>3, InsertStep
    <2>2. Half' \ {handler'.version} \subseteq S
      BY <1>3, <2>1 DEF Half, Busy, HalfInv, OverlayIds, OverlayInv, OverlayTypeOK
    <2>3. Cardinality(Half' \ {handler'.version}) <= faults'
      BY <1>0, <2>1, <2>2, FewerHalves DEF OverlayInv
    <2> QED
      BY <2>1, <2>3 DEF HalfInv, HalfCreatedByFaults, Half, Busy, Quiet
  <1>4. ASSUME SaveEntries \/ ActivateApproved PROVE HalfInv'
    <2>1. handler.version \in OverlayIds
      BY <1>4 DEF SaveEntries, ActivateApproved, OverlayInv, OverlayTypeOK, Quiet
    <2>2. Half' \ {handler'.version} \subseteq S
      <3>1. CASE SaveEntries
        BY <3>1 DEF SaveEntries, Half
      <3>2. CASE ActivateApproved
        <4>1. handler.version \in stored /\ status[handler.version] = "validated"
          BY <3>2 DEF ActivateApproved, HalfInv, OverlayInv, ApprovalCarries, Quiet
        <4>2. \A w \in OverlayIds : status[w] = "none" => status'[w] = "none"
          BY <3>2, <4>1 DEF ActivateApproved, Activated
        <4> QED
          BY <3>2, <4>1, <4>2 DEF ActivateApproved, Half
      <3> QED
        BY <1>4, <3>1, <3>2
    <2>3. faults' = faults
      BY <1>4 DEF SaveEntries, ActivateApproved
    <2>4. Cardinality(Half' \ {handler'.version}) <= faults'
      BY <1>0, <2>2, <2>3, FewerHalves DEF OverlayInv
    <2>5. /\ Quiet' => handler'.version = 0
          /\ handler'.at = "approve_activate" => handler'.version \in stored'
      BY <1>4 DEF SaveEntries, ActivateApproved, Idle, Quiet, OverlayInv,
                  OverlayTypeOK, Handler
    <2> QED
      BY <2>4, <2>5 DEF HalfInv, HalfCreatedByFaults, Half, Quiet
  <1>5. ASSUME CutShort PROVE HalfInv'
    <2> DEFINE T == Half' \ {handler'.version}
    <2>1. T \subseteq S \cup {handler.version}
      BY <1>5 DEF CutShort, Half
    <2>2. IsFiniteSet(S) /\ Cardinality(S) \in Nat
      BY <1>0, FewerHalves DEF OverlayInv
    <2>3. /\ IsFiniteSet(S \cup {handler.version})
          /\ Cardinality(S \cup {handler.version}) <= Cardinality(S) + 1
      BY <2>2, OneMore
    <2>4. IsFiniteSet(T) /\ Cardinality(T) <= Cardinality(S \cup {handler.version})
      BY <2>1, <2>3, FS_Subset
    <2>5. Cardinality(T) \in Nat /\ Cardinality(S \cup {handler.version}) \in Nat
      BY <2>3, <2>4, FS_CardinalityType
    <2>6. faults \in Nat /\ faults' = faults + 1
      BY <1>5, OverlayBoundsAssumption DEF CutShort, OverlayInv, OverlayTypeOK
    <2>7. Cardinality(T) <= faults'
      BY <1>0, <2>2, <2>3, <2>4, <2>5, <2>6
    <2> QED
      BY <1>5, <2>7 DEF CutShort, Idle, Quiet, HalfInv, HalfCreatedByFaults, Half
  <1>6. CASE UNCHANGED overlayVars
    BY <1>6 DEF overlayVars, HalfInv, HalfCreatedByFaults, Quiet
  <1> QED
    BY <1>1, <1>2, <1>3, <1>4, <1>5, <1>6 DEF Next, Create, Approve

\* At most one version without entries for each handler cut short, besides the
\* one a handler is working on.
THEOREM HalvesCounted == Spec => []HalfCreatedByFaults
  <1>1. Init => HalfInv
    <2> SUFFICES ASSUME Init PROVE HalfInv
      OBVIOUS
    <2>1. Half \ {handler.version} = {}
      BY DEF Init, Half
    <2>2. Cardinality(Half \ {handler.version}) = 0
      BY <2>1, FS_EmptySet
    <2> QED
      BY <2>2 DEF Init, Idle, Quiet, HalfInv, HalfCreatedByFaults, Half
  <1>2. OverlayInv /\ HalfInv /\ [Next]_overlayVars => HalfInv'
    BY HalfStep
  <1>3. HalfInv => HalfCreatedByFaults
    BY DEF HalfInv
  <1> QED
    BY <1>1, <1>2, <1>3, OverlaysConsistent, PTL DEF Spec
-----------------------------------------------------------------------------
(* The overlays under the queue.                                           *)

\* The gate of the queue lets through approvals that KnowledgeOverlays knows:
\* a copy of the active overlay with one alias more.
LEMMA GateLetsApprovalThrough ==
    ASSUME ApproveGap
    PROVE  Approve
  <1>1. {GapAlias} \in (SUBSET Aliases) \ {{}}
    BY StewardshipAssumption
  <1> QED
    BY <1>1 DEF ApproveGap, Copied, Approve, Serving

\* Seen from the overlays, a step of the queue or of a console is one of
\* theirs or none.
LEMMA OverlayStep ==
    ASSUME [StewardshipNext]_stewardshipVars
    PROVE  [Next]_overlayVars
  <1>1. CASE OverlayRequest
    BY <1>1 DEF OverlayRequest, Next
  <1>2. CASE OverlayHandler
    BY <1>2 DEF OverlayHandler, Next
  <1>3. ASSUME ApproveGap PROVE Next
    BY <1>3, GateLetsApprovalThrough DEF Next
  <1>4. ASSUME NEW c \in Consoles, NEW to, SetGap(c, to) PROVE UNCHANGED overlayVars
    BY <1>4 DEF SetGap
  <1>5. ASSUME NEW c \in Consoles,
               \/ Refresh(c) \/ Triage(c) \/ SaveFields(c) \/ Dismiss(c) \/ Restore(c)
               \/ Record(c) \/ GiveUp(c) \/ SavePromotion(c) \/ Promote(c)
        PROVE  UNCHANGED overlayVars
    BY <1>4, <1>5 DEF Refresh, Triage, SaveFields, Dismiss, Restore, Record,
                      GiveUp, SavePromotion, Promote
  <1>6. CASE FinishPromotion \/ UNCHANGED stewardshipVars
    BY <1>6 DEF FinishPromotion, stewardshipVars
  <1> QED
    BY <1>1, <1>2, <1>3, <1>5, <1>6
       DEF StewardshipNext, ApproveFromWorkspace, ApproveFromConsole

\* The queue and the consoles drive the overlay tables by the requests of
\* KnowledgeOverlays only (knowledge.py, canonical_gap_service.py), whichever
\* calls are lost or come late.
THEOREM QueueDrivesOverlays == StewardshipSpec => OverlaysAsSpecified
  <1>1. StewardshipInit => Init
    BY DEF StewardshipInit
  <1> QED
    BY <1>1, OverlayStep, PTL DEF StewardshipSpec, OverlaysAsSpecified, Spec

\* Hence what is proved of overlays holds under the queue.
THEOREM OverlaysHoldUnderQueue ==
    StewardshipSpec => /\ []AtMostOneActive /\ []HalfCreatedByFaults
                       /\ ApprovalKeepsEntries /\ ArchivedForGood
  BY QueueDrivesOverlays, AtMostOneActiveHolds, HalvesCounted,
     ApprovalsKeepEntries, ArchivesFinal DEF OverlaysAsSpecified
-----------------------------------------------------------------------------
(* What the queue says.                                                    *)

\* The gap's alias, and the tracked one, are in a version that was in force.
GapInForce == \E v \in everActive : GapAlias \in entries[v]
AliasInForce == Tracked \in everActive /\ GapAlias \in entries[Tracked]

Approving == handler.at \in {"approve_entries", "approve_activate"}

\* The values the queue and the consoles take.
QueueTypeOK ==
    /\ gap \in GapStatuses
    /\ promotion \in PromotionStatuses
    /\ glossary \in BOOLEAN
    /\ promoting \in BOOLEAN
    /\ seen \in [Consoles -> [gap : GapStatuses, promotion : PromotionStatuses]]
    /\ pending \in [Consoles -> {"none", "approving", "approved", "dismissed"}]
    /\ \A c \in Consoles : pending[c] = "approving" => seen[c].gap = "ready_for_approval"

\* A version that was in force has an id and its entries for good.
InForceInv ==
    /\ \A v \in everActive : status[v] # "none"
    /\ handler.at \in {"create_entries", "approve_entries"} =>
          handler.version \notin everActive

\* The queue, and what each console remembers of it, which an old click may
\* still write back, tell what was in force; an approval on its way carries
\* the gap's alias, and the gap waits for it.
EarnedInv ==
    /\ Approving => GapAlias \in handler.carried /\ gap = "ready_for_approval"
    /\ gap = "approved" => GapInForce
    /\ promotion # "missing" => AliasInForce
    /\ promotion = "promoted" \/ promoting => glossary
    /\ glossary => AliasInForce
    /\ \A c \in Consoles :
          /\ seen[c].gap = "approved" \/ pending[c] = "approved" => GapInForce
          /\ seen[c].promotion # "missing" => AliasInForce

StewardshipInv == OverlayInv /\ QueueTypeOK /\ InForceInv /\ EarnedInv

\* A request on the overlays takes nothing away from a version in force.
LEMMA InForceStep ==
    ASSUME OverlayInv, InForceInv, [Next]_overlayVars
    PROVE  /\ InForceInv'
           /\ everActive \subseteq everActive'
           /\ \A v \in everActive : entries'[v] = entries[v]
  <1> USE DEF OverlayInv, OverlayTypeOK, InForceInv, Quiet
  <1>1. ASSUME NEW v \in OverlayIds, Activate(v) \/ Deactivate(v) \/ Archive(v)
        PROVE  /\ InForceInv'
               /\ everActive \subseteq everActive' /\ entries' = entries
    BY <1>1 DEF Activate, Activatable, Activated, Deactivate, Archive
  <1>2. ASSUME Rollback
        PROVE  /\ InForceInv'
               /\ everActive \subseteq everActive' /\ entries' = entries
    <2>1. ActiveOverlay \in OverlayIds /\ status[ActiveOverlay] = "active"
      BY <1>2, ActiveOverlayIsActive DEF Rollback
    <2>2. CASE UNCHANGED everActive /\ status' = [status EXCEPT ![ActiveOverlay] = "validated"]
      BY <1>2, <2>1, <2>2 DEF Rollback
    <2>3. ASSUME NEW last \in OverlayIds, status[last] = "validated",
                 status' = Activated(last), everActive' = everActive \cup {last}
          PROVE  InForceInv' /\ everActive \subseteq everActive'
      BY <1>2, <2>3 DEF Rollback, Activated
    <2>4. entries' = entries
      BY <1>2 DEF Rollback
    <2> QED
      BY <1>2, <2>2, <2>3, <2>4 DEF Rollback, WithStatus
  <1>3. ASSUME NEW at, NEW carried, Insert(at, carried)
        PROVE  /\ InForceInv'
               /\ everActive \subseteq everActive' /\ entries' = entries
    <2>1. PICK v \in OverlayIds :
              /\ status[v] = "none"
              /\ status' = [status EXCEPT ![v] = "validated"]
              /\ handler' = Busy(at, v, carried)
              /\ UNCHANGED <<entries, stored, faults, everActive>>
      BY <1>3, InsertStep
    <2> QED
      BY <2>1 DEF Busy
  <1>4. ASSUME SaveEntries
        PROVE  /\ InForceInv' /\ everActive' = everActive
               /\ \A v \in everActive : entries'[v] = entries[v]
    BY <1>4 DEF SaveEntries, Idle, Handler
  <1>5. ASSUME ActivateApproved
        PROVE  /\ InForceInv'
               /\ everActive \subseteq everActive' /\ entries' = entries
    BY <1>5 DEF ActivateApproved, Activated, Idle
  <1>6. ASSUME CutShort \/ UNCHANGED overlayVars
        PROVE  /\ InForceInv'
               /\ everActive \subseteq everActive' /\ entries' = entries
    BY <1>6 DEF CutShort, overlayVars, Idle
  <1> QED
    BY <1>1, <1>2, <1>3, <1>4, <1>5, <1>6 DEF Next, Create, Approve

\* So what was in force stays earned.
LEMMA EarnedStays ==
    ASSUME OverlayInv, InForceInv, [Next]_overlayVars
    PROVE  /\ GapInForce => GapInForce'
           /\ AliasInForce => AliasInForce'
  <1>1. /\ everActive \subseteq everActive'
        /\ \A v \in everActive : entries'[v] = entries[v]
    BY InForceStep
  <1> QED
    BY <1>1 DEF GapInForce, AliasInForce

-----------------------------------------------------------------------------
(* The steps, those of the queue first.                                    *)

\* What a console has after it fetched the items.
LEMMA FetchedSeen ==
    ASSUME QueueTypeOK, NEW c \in Consoles, seen' = Fetched(c),
           gap' \in GapStatuses, promotion' \in PromotionStatuses
    PROVE  /\ seen' \in [Consoles -> [gap : GapStatuses, promotion : PromotionStatuses]]
           /\ \A d \in Consoles \ {c} : seen'[d] = seen[d]
           /\ seen'[c].gap \in {seen[c].gap, gap'}
           /\ seen'[c].promotion = promotion'
  BY DEF QueueTypeOK, Fetched

\* A step of a console that leaves the overlays alone keeps the invariant
\* when what it writes was earned.
LEMMA SetGapStep ==
    ASSUME StewardshipInv, NEW c \in Consoles, NEW to \in GapStatuses, SetGap(c, to),
           to = "approved" => GapInForce,
           pending' \in {pending, [pending EXCEPT ![c] = "none"]},
           pending'[c] = "none"
    PROVE  QueueTypeOK' /\ EarnedInv'
  <1> USE DEF StewardshipInv, QueueTypeOK, SetGap, Serving, Quiet
  <1>1. /\ seen' \in [Consoles -> [gap : GapStatuses, promotion : PromotionStatuses]]
        /\ \A d \in Consoles \ {c} : seen'[d] = seen[d]
        /\ seen'[c].gap \in {seen[c].gap, gap'}
        /\ seen'[c].promotion = promotion'
    BY FetchedSeen
  <1>2. QueueTypeOK'
    BY <1>1
  <1>3. ~Approving' /\ (GapInForce' <=> GapInForce) /\ (AliasInForce' <=> AliasInForce)
    BY DEF Approving, GapInForce, AliasInForce, overlayVars
  <1> QED
    BY <1>1, <1>2, <1>3 DEF EarnedInv

\* Every step keeps what the queue and the consoles know true.
LEMMA QueueStep ==
    ASSUME StewardshipInv, [StewardshipNext]_stewardshipVars
    PROVE  QueueTypeOK' /\ EarnedInv'
  <1> USE DEF StewardshipInv, QueueTypeOK
  <1>0. [Next]_overlayVars
    BY OverlayStep
  <1>1. (GapInForce => GapInForce') /\ (AliasInForce => AliasInForce')
    BY <1>0, EarnedStays
  <1>2. CASE OverlayRequest
    <2>1. UNCHANGED <<queueVars, seen, pending>> /\ ~Approving'
      BY <1>2 DEF OverlayRequest, Serving, Quiet, Activate, Deactivate, Archive,
                  Rollback, Create, Insert, Busy, Approving
    <2> QED
      BY <1>1, <2>1 DEF queueVars, EarnedInv
  <1>3. CASE OverlayHandler
    <2>1. CASE SaveEntries /\ UNCHANGED pending
      <3>1. Approving' => Approving /\ handler'.carried = handler.carried
        BY <2>1 DEF SaveEntries, Approving, Idle, OverlayInv, OverlayTypeOK, Handler
      <3> QED
        BY <1>1, <1>3, <2>1, <3>1 DEF OverlayHandler, queueVars, EarnedInv
    <2>2. ASSUME NEW done \in BOOLEAN,
                 IF done THEN ActivateApproved ELSE CutShort,
                 pending' = [c \in Consoles |->
                    IF pending[c] = "approving" THEN Answered(done) ELSE pending[c]]
          PROVE  QueueTypeOK' /\ EarnedInv'
      <3>1. UNCHANGED <<queueVars, seen>>
        BY <1>3 DEF OverlayHandler
      <3>2. ~Approving'
        BY <2>2 DEF ActivateApproved, CutShort, Idle, Approving
      <3>3. done => GapInForce'
        <4> SUFFICES ASSUME done PROVE GapInForce'
          OBVIOUS
        <4>1. /\ handler.at = "approve_activate" /\ entries' = entries
              /\ handler.version \in everActive'
          BY <2>2 DEF ActivateApproved
        <4>2. GapAlias \in entries[handler.version]
          BY <4>1 DEF EarnedInv, Approving, OverlayInv, ApprovalCarries
        <4> QED
          BY <4>1, <4>2 DEF GapInForce
      <3>4. \A c \in Consoles :
                /\ pending'[c] \in {"none", "approved", "dismissed"}
                /\ pending'[c] = "approved" => done \/ pending[c] = "approved"
        BY <2>2 DEF Answered
      <3>5. QueueTypeOK'
        BY <2>2, <3>1, <3>4 DEF queueVars
      <3> QED
        BY <1>1, <3>1, <3>2, <3>3, <3>4, <3>5 DEF queueVars, EarnedInv
    <2> QED
      BY <1>3, <2>1, <2>2 DEF OverlayHandler
  <1>4. ASSUME ApproveGap,
               \/ UNCHANGED pending
               \/ \E c \in Consoles : /\ seen[c].gap = "ready_for_approval"
                                      /\ pending' = [pending EXCEPT ![c] = "approving"]
        PROVE  QueueTypeOK' /\ EarnedInv'
    <2>1. PICK v \in OverlayIds : handler' = Busy("approve_entries", v, Copied)
      BY <1>4, InsertStep DEF ApproveGap
    <2>2. handler'.carried = Copied /\ GapAlias \in Copied
      BY <2>1 DEF Busy, Copied
    <2>3. gap = "ready_for_approval" /\ UNCHANGED <<queueVars, seen>>
      BY <1>4 DEF ApproveGap, ReadyForApproval
    <2>4. QueueTypeOK'
      BY <1>4, <2>3 DEF queueVars
    <2>5. \A c \in Consoles : pending'[c] = "approved" => pending[c] = "approved"
      BY <1>4
    <2> QED
      BY <1>1, <2>2, <2>3, <2>4, <2>5 DEF queueVars, EarnedInv
  <1>5. ASSUME NEW c \in Consoles, Refresh(c) PROVE QueueTypeOK' /\ EarnedInv'
    <2>1. /\ seen' \in [Consoles -> [gap : GapStatuses, promotion : PromotionStatuses]]
          /\ \A d \in Consoles \ {c} : seen'[d] = seen[d]
          /\ seen'[c].gap \in {seen[c].gap, gap}
          /\ seen'[c].promotion = promotion
      BY <1>5, FetchedSeen DEF Refresh, queueVars
    <2>2. pending[c] = "none" /\ UNCHANGED <<queueVars, pending>> /\ ~Approving'
      BY <1>5 DEF Refresh, Serving, Quiet, Approving, overlayVars
    <2>3. QueueTypeOK'
      BY <2>1, <2>2 DEF queueVars
    <2> QED
      BY <1>1, <2>1, <2>2, <2>3 DEF queueVars, EarnedInv
  <1>6. ASSUME NEW c \in Consoles, Triage(c) \/ SaveFields(c) \/ Record(c)
        PROVE  QueueTypeOK' /\ EarnedInv'
    <2>1. PICK to \in GapStatuses :
              /\ SetGap(c, to)
              /\ to = "approved" => GapInForce
              /\ pending' \in {pending, [pending EXCEPT ![c] = "none"]}
              /\ pending'[c] = "none"
      BY <1>6 DEF Triage, SaveFields, Record, GapStatuses, EarnedInv
    <2> QED
      BY <2>1, SetGapStep
  <1>7. ASSUME NEW c \in Consoles, Dismiss(c) PROVE QueueTypeOK' /\ EarnedInv'
    <2>1. /\ pending' = [pending EXCEPT ![c] = "dismissed"] /\ ~Approving'
          /\ UNCHANGED <<queueVars, seen>>
      BY <1>7 DEF Dismiss, Serving, Quiet, Approving, overlayVars
    <2>2. QueueTypeOK'
      BY <2>1 DEF queueVars
    <2> QED
      BY <1>1, <2>1, <2>2 DEF queueVars, EarnedInv
  <1>8. ASSUME NEW c \in Consoles, Restore(c) PROVE QueueTypeOK' /\ EarnedInv'
    <2>1. CASE SetGap(c, "queued")
      BY <1>8, <2>1, SetGapStep DEF Restore, GapStatuses
    <2>2. CASE ~SetGap(c, "queued")
      <3>1. /\ seen' = [seen EXCEPT ![c].gap = "missing"]
            /\ pending[c] = "none" /\ UNCHANGED <<overlayVars, queueVars, pending>>
        BY <1>8, <2>2 DEF Restore
      <3>2. /\ seen' \in [Consoles -> [gap : GapStatuses, promotion : PromotionStatuses]]
            /\ seen'[c].gap = "missing" /\ seen'[c].promotion = seen[c].promotion
            /\ \A d \in Consoles \ {c} : seen'[d] = seen[d]
        BY <3>1 DEF GapStatuses
      <3>3. QueueTypeOK'
        BY <3>1, <3>2 DEF queueVars
      <3> QED
        BY <1>1, <3>1, <3>2, <3>3 DEF queueVars, overlayVars, Approving, EarnedInv
    <2> QED
      BY <2>1, <2>2
  <1>9. ASSUME NEW c \in Consoles, GiveUp(c) PROVE QueueTypeOK' /\ EarnedInv'
    <2>1. /\ pending' = [pending EXCEPT ![c] = "none"] /\ pending[c] # "none"
          /\ UNCHANGED <<overlayVars, queueVars>>
      BY <1>9 DEF GiveUp
    <2>2. /\ seen' \in [Consoles -> [gap : GapStatuses, promotion : PromotionStatuses]]
          /\ seen'[c].gap \in {seen[c].gap, pending[c]}
          /\ seen'[c].promotion = seen[c].promotion
          /\ \A d \in Consoles \ {c} : seen'[d] = seen[d]
      BY <1>9 DEF GiveUp, GapStatuses
    <2>3. QueueTypeOK'
      BY <2>1, <2>2 DEF queueVars
    <2>4. \A d \in Consoles : pending'[d] = "approved" => pending[d] = "approved"
      BY <2>1
    <2> QED
      BY <1>1, <2>1, <2>2, <2>3, <2>4 DEF queueVars, overlayVars, Approving, EarnedInv
  <1>10. ASSUME NEW c \in Consoles, SavePromotion(c) PROVE QueueTypeOK' /\ EarnedInv'
    <2>1. /\ promotion' \in {"queued", "ready_for_approval"} /\ pending[c] = "none"
          /\ UNCHANGED <<overlayVars, gap, glossary, promoting, pending>>
          /\ seen' = Fetched(c) /\ ~Approving'
      BY <1>10 DEF SavePromotion, Serving, Quiet, Approving, overlayVars
    <2>2. /\ seen' \in [Consoles -> [gap : GapStatuses, promotion : PromotionStatuses]]
          /\ \A d \in Consoles \ {c} : seen'[d] = seen[d]
          /\ seen'[c].gap \in {seen[c].gap, gap}
          /\ seen'[c].promotion = promotion'
      BY <2>1, FetchedSeen DEF PromotionStatuses
    <2>3. QueueTypeOK'
      BY <2>1, <2>2 DEF PromotionStatuses
    <2>4. AliasInForce
      BY <1>10 DEF SavePromotion, MayTrack, EarnedInv, AliasInForce
    <2> QED
      BY <1>1, <2>1, <2>2, <2>3, <2>4 DEF EarnedInv
  <1>11. ASSUME NEW c \in Consoles, Promote(c) PROVE QueueTypeOK' /\ EarnedInv'
    <2>1. /\ glossary' = TRUE /\ promoting' = TRUE /\ promotion # "missing"
          /\ UNCHANGED <<overlayVars, gap, promotion, seen, pending>>
      BY <1>11 DEF Promote
    <2> QED
      BY <1>1, <2>1 DEF EarnedInv, Approving, overlayVars
  <1>12. CASE FinishPromotion
    <2>1. /\ promoting /\ promoting' = FALSE /\ promotion' \in {promotion, "promoted"}
          /\ UNCHANGED <<overlayVars, gap, glossary, seen, pending>>
      BY <1>12 DEF FinishPromotion
    <2> QED
      BY <1>1, <2>1 DEF EarnedInv, Approving, overlayVars, PromotionStatuses
  <1>13. CASE UNCHANGED stewardshipVars
    BY <1>1, <1>13 DEF stewardshipVars, queueVars, overlayVars, Approving, EarnedInv
  <1> QED
    BY <1>2, <1>3, <1>4, <1>5, <1>6, <1>7, <1>8, <1>9, <1>10, <1>11, <1>12, <1>13
       DEF StewardshipNext, ApproveFromWorkspace, ApproveFromConsole

-----------------------------------------------------------------------------
(* The theorems.                                                           *)

\* The invariant is inductive, hence holds in every reachable state.
THEOREM QueueConsistent == StewardshipSpec => []StewardshipInv
  <1>1. StewardshipInit => StewardshipInv
    <2> SUFFICES ASSUME StewardshipInit PROVE StewardshipInv
      OBVIOUS
    <2> USE DEF StewardshipInit, Init, Idle, Unseen
    <2>1. QueueTypeOK
      BY DEF QueueTypeOK, GapStatuses, PromotionStatuses
    <2>2. InForceInv /\ EarnedInv
      BY DEF InForceInv, EarnedInv, Approving
    <2> QED
      BY <2>1, <2>2, OverlayInvInit DEF StewardshipInv
  <1>2. StewardshipInv /\ [StewardshipNext]_stewardshipVars => StewardshipInv'
    <2> SUFFICES ASSUME StewardshipInv, [StewardshipNext]_stewardshipVars
                 PROVE  StewardshipInv'
      OBVIOUS
    <2>1. [Next]_overlayVars
      BY OverlayStep
    <2>2. OverlayInv'
      BY <2>1, TypeStep, ActiveStep DEF StewardshipInv, OverlayInv
    <2>3. InForceInv'
      BY <2>1, InForceStep DEF StewardshipInv
    <2> QED
      BY <2>2, <2>3, QueueStep DEF StewardshipInv
  <1> QED
    BY <1>1, <1>2, PTL DEF StewardshipSpec

\* An approved gap and a promoted alias were earned, whatever stale consoles
\* write back.
THEOREM QueueEarned == StewardshipSpec => []QueueIsEarned
  <1>1. StewardshipInv => QueueIsEarned
    BY DEF StewardshipInv, EarnedInv, QueueIsEarned, GapInForce, AliasInForce
  <1> QED
    BY <1>1, QueueConsistent, PTL

\* An approval never takes effect on a gap that was rejected in between.
THEOREM RejectionsHold == StewardshipSpec => NoApprovalPastReject
  <1> DEFINE Past == handler.at = "approve_activate" /\ status' # status => gap # "dismissed"
  <1>1. StewardshipInv /\ [StewardshipNext]_stewardshipVars => [Past]_stewardshipVars
    BY DEF StewardshipInv, EarnedInv, Approving
  <1> QED
    BY <1>1, QueueConsistent, PTL DEF StewardshipSpec, NoApprovalPastReject
=============================================================================
