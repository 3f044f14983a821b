------------------------- MODULE MappingGovernance -------------------------
(***************************************************************************)
(* Governed mapping sets: the tables mapping_sets, mapping_catalog_entries *)
(* and mapping_set_audit_logs of persistence_service.py, the routes that   *)
(* save, review and apply a set (backend/app/api/routes/mapping.py), the   *)
(* catalog that reads them (catalog_repository.py), and the clients that   *)
(* reuse a set in their workspace (streamlit_ui/catalog_views.py and       *)
(* workspace_decision_views.py).                                           *)
(*                                                                         *)
(* A handler runs to its end on the event loop and is one action.  Its     *)
(* audit entry is a transaction of its own, after the change it tells of:  *)
(* a fault or a crash may come between the two.  A client decides by what  *)
(* it was shown, which may be long out of date.                            *)
(*                                                                         *)
(* The decisions of a saved set never change, so a set stands for them,    *)
(* and the concepts a catalog entry lists are left out.  So is the apply   *)
(* route's check of the workspace id: neither client sends one.            *)
(***************************************************************************)
EXTENDS Naturals, FiniteSets

CONSTANTS
    Names,          \* what users call a mapping set
    Integrations,   \* the integration they file it under
    Clients,
    MaxSets,        \* bound: rows inserted into mapping_sets
    MaxFaults       \* bound: handlers cut short before their audit entry

ASSUME GovernanceBoundsAssumption == MaxSets \in Nat /\ MaxFaults \in Nat

VARIABLES
    sets,       \* the rows of mapping_sets
    catalog,    \* the rows of mapping_catalog_entries, of the same ids
    audit,      \* what mapping_set_audit_logs tells of each set
    offered,    \* the sets each client was shown with the status approved
    shortlist,  \* the sets on each client's field reuse shortlist
    workspace,  \* the sets whose decisions each client's workspace holds
    faults

governanceVars ==
    <<sets, catalog, audit, offered, shortlist, workspace, faults>>
-----------------------------------------------------------------------------
SetIds == 1..MaxSets
Statuses == {"draft", "review", "approved", "archived"}

Row == [name : Names, integration : Integrations, version : Nat \ {0},
        status : Statuses]
NoRow == [version |-> 0, status |-> "none"]

Exists(s) == sets[s].version # 0
Saved == {s \in SetIds : Exists(s)}

\* The log keeps, of each set, the status it tells last and whether it ever
\* told of an approval.
NoAudit == [last |-> "none", approval |-> FALSE]
Told(a, status) == [last |-> status, approval |-> a.approval \/ status = "approved"]

\* append_mapping_set_audit, or the fault or crash before it.
Audited(s, status) ==
    audit' = [audit EXCEPT ![s] = Told(@, status)] /\ UNCHANGED faults
CutShort == faults < MaxFaults /\ faults' = faults + 1 /\ UNCHANGED audit
-----------------------------------------------------------------------------
(* Saving and reviewing.                                                   *)

\* Broken: counts what is not archived, and so hands a version out again.
NextVersionOfLive(name, v) ==
    v = 1 + Cardinality({s \in Saved : sets[s].name = name /\ sets[s].status # "archived"})

\* save_mapping_set: one more than the highest version of that name.
NextVersion(name, v) ==
    LET versions == {sets[s].version : s \in {t \in Saved : sets[t].name = name}}
    IN IF versions = {} THEN v = 1
       ELSE /\ v - 1 \in versions
            /\ \A w \in versions : w < v

\* create_mapping_set: row and projection in one transaction, then the audit.
Create(s, name, integration) ==
    /\ ~Exists(s)
    /\ \A t \in SetIds : t < s => Exists(t)         \* AUTOINCREMENT
    /\ \E v \in 0..MaxSets :
          LET row == [name |-> name, integration |-> integration,
                      version |-> v, status |-> "draft"]
          IN /\ NextVersion(name, v)
             /\ sets' = [sets EXCEPT ![s] = row]
             /\ catalog' = [catalog EXCEPT ![s] = row]
    /\ Audited(s, "draft") \/ CutShort
    /\ UNCHANGED <<offered, shortlist, workspace>>

\* Broken: an archived set stays in the catalog as it was.
UpdateStatusButNotArchived(s, status) ==
    /\ Exists(s)
    /\ sets' = [sets EXCEPT ![s].status = status]
    /\ IF status = "archived" THEN UNCHANGED catalog
       ELSE catalog' = [catalog EXCEPT ![s].status = status]
    /\ Audited(s, status) \/ CutShort
    /\ UNCHANGED <<offered, shortlist, workspace>>

\* Broken: only approvals are worth an entry.
UpdateStatusAuditingApprovals(s, status) ==
    /\ Exists(s)
    /\ sets' = [sets EXCEPT ![s].status = status]
    /\ catalog' = [catalog EXCEPT ![s].status = status]
    /\ IF status = "approved" THEN Audited(s, status) ELSE UNCHANGED <<audit, faults>>
    /\ UNCHANGED <<offered, shortlist, workspace>>

\* update_mapping_set_status: from any status to any, by anyone who may.
UpdateStatus(s, status) ==
    /\ Exists(s)
    /\ sets' = [sets EXCEPT ![s].status = status]
    /\ catalog' = [catalog EXCEPT ![s].status = status]
    /\ Audited(s, status) \/ CutShort
    /\ UNCHANGED <<offered, shortlist, workspace>>
-----------------------------------------------------------------------------
(* The catalog.                                                            *)

Listed(rows) == {s \in Saved : rows[s].status = "approved"}
Filed(i) == {s \in Saved : catalog[s].integration = i}

\* ORDER BY integration_name, version DESC, mapping_set_id DESC.
Before(s, t) ==
    \/ catalog[s].version > catalog[t].version
    \/ catalog[s].version = catalog[t].version /\ s > t

\* The first record of those in some, as a set of at most one.
First(some) == {s \in some : \A t \in some \ {s} : Before(s, t)}

\* latest_version and latest_approved_version of an integration.
Latest(i) == First(Filed(i))
LatestApproved(i) == First(Filed(i) \cap Listed(catalog))
-----------------------------------------------------------------------------
(* The clients.                                                            *)

\* The list of saved mapping sets, or the versions of an integration.
Browse(c) ==
    /\ \E rows \in {sets, catalog} :
          offered' = [offered EXCEPT ![c] = Listed(rows)]
    /\ UNCHANGED <<sets, catalog, audit, shortlist, workspace, faults>>

\* Broken: the shortlist takes the latest version of each integration.
FindFieldsInLatest(c) ==
    /\ shortlist' = [shortlist EXCEPT ![c] = UNION {Latest(i) : i \in Integrations}]
    /\ UNCHANGED <<sets, catalog, audit, offered, workspace, faults>>

\* workspace_field_reuse_shortlist, of fields that every set decides.
FindFields(c) ==
    /\ shortlist' = [shortlist EXCEPT ![c] = UNION {LatestApproved(i) : i \in Integrations}]
    /\ UNCHANGED <<sets, catalog, audit, offered, workspace, faults>>

\* "Apply saved mapping set" merges: earlier sets keep the sources that the new
\* one does not decide, be that none or all.  "Reuse in Workspace" keeps none.
Merge(held, s) == {kept \cup {s} : kept \in SUBSET held}

\* Both buttons: POST .../apply checks the status and writes the audit entry
\* before it answers.
Apply(c, s) ==
    /\ s \in offered[c]
    /\ sets[s].status = "approved"
    /\ \/ /\ Audited(s, "approved")
          /\ \E held \in Merge(workspace[c], s) : workspace' = [workspace EXCEPT ![c] = held]
       \/ CutShort /\ UNCHANGED workspace
    /\ UNCHANGED <<sets, catalog, offered, shortlist>>

\* "Import selected fields into Workspace": a plain GET of the set.
ImportFields(c, s) ==
    /\ s \in shortlist[c]
    /\ workspace' = [workspace EXCEPT ![c] = @ \cup {s}]
    /\ UNCHANGED <<sets, catalog, audit, offered, shortlist, faults>>

\* A new upload drops the decisions but keeps what was listed.
Upload(c) ==
    /\ workspace' = [workspace EXCEPT ![c] = {}]
    /\ UNCHANGED <<sets, catalog, audit, offered, shortlist, faults>>
-----------------------------------------------------------------------------
Init ==
    /\ sets = [s \in SetIds |-> NoRow]
    /\ catalog = [s \in SetIds |-> NoRow]
    /\ audit = [s \in SetIds |-> NoAudit]
    /\ offered = [c \in Clients |-> {}]
    /\ shortlist = [c \in Clients |-> {}]
    /\ workspace = [c \in Clients |-> {}]
    /\ faults = 0

Govern(s) ==
    \/ \E name \in Names, i \in Integrations : Create(s, name, i)
    \/ \E status \in Statuses : UpdateStatus(s, status)

Reuse(c) ==
    \/ Browse(c) \/ FindFields(c) \/ Upload(c)
    \/ \E s \in SetIds : Apply(c, s) \/ ImportFields(c, s)

Next == (\E s \in SetIds : Govern(s)) \/ (\E c \in Clients : Reuse(c))

Spec == Init /\ [][Next]_governanceVars
-----------------------------------------------------------------------------
(* Properties.                                                             *)

\* Rows, projections, log and clients hold what the tables and the session
\* state can hold.
GovernanceTypeOK ==
    /\ sets \in [SetIds -> Row \cup {NoRow}]
    /\ catalog \in [SetIds -> Row \cup {NoRow}]
    /\ audit \in [SetIds -> [last : Statuses \cup {"none"}, approval : BOOLEAN]]
    /\ offered \in [Clients -> SUBSET Saved]
    /\ shortlist \in [Clients -> SUBSET Saved]
    /\ workspace \in [Clients -> SUBSET Saved]
    /\ faults \in 0..MaxFaults

\* A name and a version name one set, and later sets have later versions:
\* what the diff of two versions and the labels of the client rest on.
VersionsFollowIds ==
    \A s, t \in Saved :
        sets[s].name = sets[t].name /\ s < t => sets[s].version < sets[t].version

\* "latest_approved_version answers what is the newest governance-approved
\* variant" (docs/reference/CATALOG_SEARCH_REUSE_AND_SIMILARITY.md) of an
\* integration filed under one name: whatever was archived or approved again,
\* it is the approved set saved last.
LatestApprovedIsNewest ==
    \A i \in Integrations :
        (\A s, t \in Filed(i) : sets[s].name = sets[t].name) =>
            LatestApproved(i) =
                {s \in Filed(i) \cap Listed(sets) : \A t \in Filed(i) \cap Listed(sets) : t <= s}

\* The log tells the status every set has, but for one set for each handler
\* cut short.
AuditTellsStatus ==
    Cardinality({s \in SetIds : audit[s].last # sets[s].status}) <= faults

\* Whatever a workspace took from the catalog, however old the list it was
\* picked from, was approved once, and the log tells of an approval but for
\* one set for each handler cut short.
ReuseAccountedFor ==
    Cardinality({s \in UNION {workspace[c] : c \in Clients} : ~audit[s].approval}) <= faults
=============================================================================
