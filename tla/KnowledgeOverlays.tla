------------------------- MODULE KnowledgeOverlays -------------------------
(***************************************************************************)
(* The versioned knowledge overlays of Semantra: the tables                *)
(* knowledge_overlay_versions and knowledge_overlay_entries of             *)
(* backend/app/services/persistence_service.py and the admin requests that *)
(* change them (backend/app/api/routes/knowledge.py, and the approval of a *)
(* canonical gap in backend/app/services/canonical_gap_service.py).        *)
(*                                                                         *)
(* A request handler never awaits between two of its storage calls, so no  *)
(* other request runs in the middle of it; but each storage call is a      *)
(* transaction of its own, and a fault or a crash may leave a handler half *)
(* done.  The requests of one transaction are one action; creating and     *)
(* approving take several, and `handler` is where they are.                *)
(***************************************************************************)
EXTENDS Naturals, FiniteSets

CONSTANTS
    Aliases,        \* what an overlay entry adds; only compared
    MaxOverlays,    \* bound: rows inserted into knowledge_overlay_versions
    MaxFaults       \* bound: handlers cut short by a fault or a crash

ASSUME OverlayBoundsAssumption == MaxOverlays \in Nat /\ MaxFaults \in Nat

VARIABLES
    status,     \* of each version; "none" while the id is not assigned
    entries,    \* the entries saved for each version
    stored,     \* the versions whose entries were saved (maybe no entry)
    handler,    \* the multi-transaction request in progress
    faults,
    everActive  \* history: versions that have been active

overlayVars == <<status, entries, stored, handler, faults, everActive>>
-----------------------------------------------------------------------------
OverlayIds == 1..MaxOverlays

\* The model of the column also has "draft"; every route saves "validated".
OverlayStatuses == {"none", "validated", "active", "archived"}

WithStatus(s) == {v \in OverlayIds : status[v] = s}

\* get_active_knowledge_overlay_version: the last active row, 0 without one.
ActiveOverlay ==
    IF WithStatus("active") = {} THEN 0
    ELSE CHOOSE v \in WithStatus("active") :
            \A w \in WithStatus("active") : w <= v

\* AUTOINCREMENT hands out ids in order and never reuses one.
NextId(v) == status[v] = "none" /\ \A w \in OverlayIds : w < v => status[w] # "none"

\* The requests that take several transactions, and where each stands.
Idle == [at |-> "idle", version |-> 0, carried |-> {}]
Busy(at, version, carried) ==
    [at |-> at, version |-> version, carried |-> carried]
Handler == [at : {"idle", "create_entries", "approve_entries", "approve_activate"},
            version : OverlayIds \cup {0}, carried : SUBSET Aliases]
-----------------------------------------------------------------------------
(* Status changes of persistence_service.                                  *)

\* A broken activation that leaves the version that was active as it is.
ActivatedOnly(v) == [status EXCEPT ![v] = "active"]

\* One transaction rewrites every row.
Activated(v) ==
    [w \in OverlayIds |-> IF w = v THEN "active"
                          ELSE IF status[w] = "active" THEN "validated"
                          ELSE status[w]]

\* A broken guard that takes a version from the archive.
ActivatableEvenArchived(v) == status[v] # "none"

Activatable(v) == status[v] \in {"validated", "active"}

Quiet == handler.at = "idle"

\* activate_knowledge_overlay_version.
Activate(v) ==
    /\ Quiet
    /\ Activatable(v)
    /\ status' = Activated(v)
    /\ everActive' = everActive \cup {v}
    /\ UNCHANGED <<entries, stored, handler, faults>>

\* deactivate_knowledge_overlay_version; of a version that is not active it
\* returns the row and changes nothing.
Deactivate(v) ==
    /\ Quiet
    /\ status[v] = "active"
    /\ status' = [status EXCEPT ![v] = "validated"]
    /\ UNCHANGED <<entries, stored, handler, faults, everActive>>

Archive(v) ==
    /\ Quiet
    /\ status[v] \in {"validated", "active"}
    /\ status' = [status EXCEPT ![v] = "archived"]
    /\ UNCHANGED <<entries, stored, handler, faults, everActive>>

\* rollback_knowledge_overlay_version: with the active version out of the way,
\* the validated version of the highest id becomes active; without one, none.
Rollback ==
    /\ Quiet
    /\ ActiveOverlay # 0
    /\ LET candidates == WithStatus("validated") \ {ActiveOverlay} IN
       \/ /\ candidates = {}
          /\ status' = [status EXCEPT ![ActiveOverlay] = "validated"]
          /\ UNCHANGED everActive
       \/ \E last \in candidates :
             /\ \A v \in candidates : v <= last
             /\ status' = Activated(last)
             /\ everActive' = everActive \cup {last}
    /\ UNCHANGED <<entries, stored, handler, faults>>
-----------------------------------------------------------------------------
(* Creating a version: the row, then its entries.                          *)

\* save_knowledge_overlay_version on behalf of a request that goes on at `at`.
Insert(at, carried) ==
    \E v \in OverlayIds :
        /\ NextId(v)
        /\ status' = [status EXCEPT ![v] = "validated"]
        /\ handler' = Busy(at, v, carried)
        /\ UNCHANGED <<entries, stored, faults, everActive>>

\* approve_canonical_gap_suggestion: a copy of the active overlay's entries
\* with at least one alias added.
Approve ==
    /\ Quiet
    /\ \E added \in (SUBSET Aliases) \ {{}} :
          Insert("approve_entries",
                 added \cup (IF ActiveOverlay = 0 THEN {}
                             ELSE entries[ActiveOverlay]))

\* A broken upload that is done after its first transaction.
CreateRowOnly ==
    /\ Quiet
    /\ \E v \in OverlayIds :
          /\ NextId(v)
          /\ status' = [status EXCEPT ![v] = "validated"]
    /\ UNCHANGED <<entries, stored, handler, faults, everActive>>

\* The upload of a valid overlay CSV, of any rows.
Create == Quiet /\ \E rows \in SUBSET Aliases : Insert("create_entries", rows)

\* save_knowledge_overlay_entries.
SaveEntries ==
    /\ handler.at \in {"create_entries", "approve_entries"}
    /\ entries' = [entries EXCEPT ![handler.version] = handler.carried]
    /\ stored' = stored \cup {handler.version}
    /\ handler' = IF handler.at = "create_entries" THEN Idle
                  ELSE [handler EXCEPT !.at = "approve_activate"]
    /\ UNCHANGED <<status, faults, everActive>>

\* The approval activates what it has stored.
ActivateApproved ==
    /\ handler.at = "approve_activate"
    /\ status' = Activated(handler.version)
    /\ everActive' = everActive \cup {handler.version}
    /\ handler' = Idle
    /\ UNCHANGED <<entries, stored, faults>>

\* A fault or a crash between two transactions of a handler.
CutShort ==
    /\ ~Quiet
    /\ faults < MaxFaults
    /\ faults' = faults + 1
    /\ handler' = Idle
    /\ UNCHANGED <<status, entries, stored, everActive>>
-----------------------------------------------------------------------------
Init ==
    /\ status = [v \in OverlayIds |-> "none"]
    /\ entries = [v \in OverlayIds |-> {}]
    /\ stored = {}
    /\ handler = Idle
    /\ faults = 0
    /\ everActive = {}

Next ==
    \/ \E v \in OverlayIds : Activate(v) \/ Deactivate(v) \/ Archive(v)
    \/ Rollback \/ Create \/ Approve
    \/ SaveEntries \/ ActivateApproved \/ CutShort

Spec == Init /\ [][Next]_overlayVars
-----------------------------------------------------------------------------
(* Properties.                                                             *)

\* Every overlay has a status of the column, and the handler in progress
\* works on an assigned id.
OverlayTypeOK ==
    /\ status \in [OverlayIds -> OverlayStatuses]
    /\ entries \in [OverlayIds -> SUBSET Aliases]
    /\ stored \in SUBSET OverlayIds
    /\ handler \in Handler
    /\ ~Quiet => handler.version \in OverlayIds
    /\ faults \in 0..MaxFaults
    /\ everActive \in SUBSET OverlayIds

\* No order of activations, approvals, rollbacks and interrupted handlers
\* leaves two versions active: get_active_knowledge_overlay_version picks the
\* last one, and a deactivation would then uncover the other.
AtMostOneActive == Cardinality(WithStatus("active")) <= 1

\* A canonical gap is approved into a copy of the active overlay: when the
\* approval takes effect, nothing the old overlay added is lost, although the
\* copy was read three transactions earlier.
ApprovalKeepsEntries ==
    [][(ActiveOverlay # 0 /\ ActiveOverlay' # 0 /\ handler.at = "approve_activate")
       => entries[ActiveOverlay] \subseteq entries'[ActiveOverlay']]_overlayVars

\* An archived version never comes back, by rollback or otherwise.
ArchivedForGood ==
    [][\A v \in OverlayIds : status[v] = "archived" => status'[v] = "archived"]_overlayVars

\* A version without its entries is one a handler is working on, or was left
\* by a handler cut short: at most one for each fault.
HalfCreatedByFaults ==
    Cardinality({v \in OverlayIds : status[v] # "none" /\ v \notin stored}
                    \ {handler.version}) <= faults
=============================================================================
