---------------------------- MODULE Stewardship ----------------------------
(***************************************************************************)
(* The stewardship queue over the knowledge overlays: the table            *)
(* knowledge_stewardship_items (backend/app/services/persistence_service), *)
(* the requests that change it (backend/app/api/routes/knowledge.py), and  *)
(* the admin consoles that drive them (streamlit_ui/admin_views.py).       *)
(*                                                                         *)
(* One canonical gap is followed from triage to its approval into an       *)
(* overlay, and one alias of an overlay to its promotion into the stable   *)
(* glossary.  A console decides from the items it fetched last, however    *)
(* old, and a decision on a gap takes it two calls: the approval or the    *)
(* audited rejection, then the status of the item.  Between them another   *)
(* console may act, and the second call may never come.                    *)
(*                                                                         *)
(* "queued" stands for new and needs_review, and for the statuses of a     *)
(* promotion item other than ready_for_approval and promoted; "dismissed"  *)
(* for rejected and ignored: only an ignored gap has a restore button, but *)
(* triage takes back either.  Owner, assignee and note are left out.       *)
(***************************************************************************)
EXTENDS KnowledgeOverlays

CONSTANTS
    Consoles,
    GapAlias,       \* what approving the gap adds, and what may be promoted
    Tracked         \* bound: the one version whose alias is considered

ASSUME StewardshipAssumption == GapAlias \in Aliases /\ Tracked \in Nat \ {0}

VARIABLES
    gap,        \* the status of the canonical_gap item
    promotion,  \* the status of the overlay_promotion item
    glossary,   \* is the alias in the stable glossary?
    promoting,  \* a promotion between the glossary and its item
    seen,       \* each console: the items it fetched last
    pending     \* each console: the status its second call is to record

queueVars == <<gap, promotion, glossary, promoting>>
stewardshipVars == <<overlayVars, queueVars, seen, pending>>
-----------------------------------------------------------------------------
GapStatuses == {"missing", "queued", "ready_for_approval", "approved", "dismissed"}
PromotionStatuses == {"missing", "queued", "ready_for_approval", "promoted"}

\* The two items as a console has them in its session.
Unseen == [gap |-> "missing", promotion |-> "missing"]

\* No request runs in the middle of another.
Serving == Quiet /\ ~promoting

\* GET /knowledge/stewardship-items.  Without an item, the console goes by the
\* outcome it noted itself.
Fetched(c) ==
    [seen EXCEPT ![c].gap = IF gap' = "missing" THEN @ ELSE gap',
                 ![c].promotion = promotion']

Refresh(c) ==
    /\ Serving
    /\ pending[c] = "none"
    /\ UNCHANGED <<overlayVars, queueVars, pending>>
    /\ seen' = Fetched(c)
-----------------------------------------------------------------------------
(* The gap.                                                                *)

SetGap(c, to) ==
    /\ Serving
    /\ gap' = to
    /\ UNCHANGED <<promotion, glossary, promoting>>
    /\ seen' = Fetched(c)
    /\ UNCHANGED overlayVars

\* "Update triage", offered whatever the status.
Triage(c) ==
    /\ pending[c] = "none"
    /\ \E to \in {"queued", "ready_for_approval"} :
          /\ to = "ready_for_approval" => seen[c].gap # to
          /\ SetGap(c, to)
    /\ UNCHANGED pending

\* "Save stewardship fields" saves the whole item, with the status as seen.
SaveFields(c) ==
    /\ pending[c] = "none"
    /\ SetGap(c, IF seen[c].gap = "missing" THEN "queued" ELSE seen[c].gap)
    /\ UNCHANGED pending

\* "Ignore with audit", "Reject with audit": the audit entry comes first.
Dismiss(c) ==
    /\ Serving
    /\ pending[c] = "none"
    /\ seen[c].gap \in {"missing", "queued", "ready_for_approval"}
    /\ pending' = [pending EXCEPT ![c] = "dismissed"]
    /\ UNCHANGED <<overlayVars, queueVars, seen>>

\* "Restore to queue"; an outcome only the console knows is forgotten there.
Restore(c) ==
    /\ pending[c] = "none"
    /\ seen[c].gap = "dismissed"
    /\ \/ SetGap(c, "queued")
       \/ /\ gap = "missing"
          /\ seen' = [seen EXCEPT ![c].gap = "missing"]
          /\ UNCHANGED <<overlayVars, queueVars>>
    /\ UNCHANGED pending

\* A broken gate that leaves the check to the console, and the one of the
\* API, which reads the item anew.
GateOfTheConsole == TRUE
ReadyForApproval == gap = "ready_for_approval"

\* A broken approval that starts from an empty overlay, and the code's copy of
\* the active one.
GapAliasOnly == {GapAlias}
Copied ==
    {GapAlias} \cup (IF ActiveOverlay = 0 THEN {} ELSE entries[ActiveOverlay])

\* POST /knowledge/canonical-gaps/approve: the gate, then the first of the
\* overlay transactions.
ApproveGap ==
    /\ Serving
    /\ ReadyForApproval
    /\ Insert("approve_entries", Copied)
    /\ UNCHANGED <<queueVars, seen>>

\* "Approve from console".
ApproveFromConsole(c) ==
    /\ pending[c] = "none"
    /\ seen[c].gap = "ready_for_approval"
    /\ ApproveGap
    /\ pending' = [pending EXCEPT ![c] = "approving"]

\* "Approve and persist" of the workspace, which does not touch the item.
ApproveFromWorkspace == ApproveGap /\ UNCHANGED pending

\* A broken console that records the approval whatever the answer, and the
\* code's: an approval that was cut short is an error, which ends the click.
RecordedAnyway(done) == "approved"
Answered(done) == IF done THEN "approved" ELSE "none"

\* The other transactions of a handler, and the answer to its console.
OverlayHandler ==
    /\ ~promoting
    /\ \/ SaveEntries /\ UNCHANGED pending
       \/ \E done \in BOOLEAN :
             /\ IF done THEN ActivateApproved ELSE CutShort
             /\ pending' = [c \in Consoles |->
                    IF pending[c] = "approving" THEN Answered(done)
                                                ELSE pending[c]]
    /\ UNCHANGED <<queueVars, seen>>

\* The second call of a decision.
Record(c) ==
    /\ pending[c] \in {"approved", "dismissed"}
    /\ SetGap(c, pending[c])
    /\ pending' = [pending EXCEPT ![c] = "none"]

\* A call that fails or times out ends the click; the console has noted the
\* outcome for itself.
GiveUp(c) ==
    /\ pending[c] # "none"
    /\ pending' = [pending EXCEPT ![c] = "none"]
    /\ seen' = [seen EXCEPT ![c].gap =
                    IF @ = "missing" THEN pending[c] ELSE @]
    /\ UNCHANGED <<overlayVars, queueVars>>
-----------------------------------------------------------------------------
(* The promotion of the alias.                                             *)

\* The console offers the aliases of the version that was active when it was
\* opened, at any time before, or whose item is there already.
MayTrack(c) ==
    /\ GapAlias \in entries[Tracked]
    /\ Tracked \in everActive \/ seen[c].promotion # "missing"

\* "Save promotion candidate".
SavePromotion(c) ==
    /\ Serving
    /\ pending[c] = "none"
    /\ MayTrack(c)
    /\ seen[c].promotion # "promoted"
    /\ promotion' \in {"queued", "ready_for_approval"}
    /\ UNCHANGED <<gap, glossary, promoting>>
    /\ seen' = Fetched(c)
    /\ UNCHANGED <<overlayVars, pending>>

\* POST .../promote-to-glossary writes the glossary first,
Promote(c) ==
    /\ Serving
    /\ pending[c] = "none"
    /\ seen[c].promotion = "ready_for_approval"
    /\ promotion \in {"ready_for_approval", "promoted"}
    /\ glossary' = TRUE
    /\ promoting' = TRUE
    /\ UNCHANGED <<overlayVars, gap, promotion, seen, pending>>

\* then the item, unless a fault or a crash comes first.
FinishPromotion ==
    /\ promoting
    /\ promoting' = FALSE
    /\ promotion' \in {promotion, "promoted"}
    /\ UNCHANGED <<overlayVars, gap, glossary, seen, pending>>
-----------------------------------------------------------------------------
\* The admin's other overlay requests.
OverlayRequest ==
    /\ Serving
    /\ \/ \E v \in OverlayIds : Activate(v) \/ Deactivate(v) \/ Archive(v)
       \/ Rollback \/ Create
    /\ UNCHANGED <<queueVars, seen, pending>>

StewardshipInit ==
    /\ Init
    /\ gap = "missing" /\ promotion = "missing"
    /\ glossary = FALSE /\ promoting = FALSE
    /\ seen = [c \in Consoles |-> Unseen]
    /\ pending = [c \in Consoles |-> "none"]

StewardshipNext ==
    \/ OverlayRequest \/ OverlayHandler
    \/ ApproveFromWorkspace \/ FinishPromotion
    \/ \E c \in Consoles :
          \/ Refresh(c) \/ Triage(c) \/ SaveFields(c) \/ Dismiss(c)
          \/ Restore(c) \/ ApproveFromConsole(c) \/ Record(c) \/ GiveUp(c)
          \/ SavePromotion(c) \/ Promote(c)

StewardshipSpec == StewardshipInit /\ [][StewardshipNext]_stewardshipVars
-----------------------------------------------------------------------------
(* Properties.                                                             *)

\* What the queue says is true of the knowledge behind it, however stale the
\* consoles and whichever calls are lost: an approved gap is in a version that
\* was in force, a promoted alias is in the glossary, and an alias in the
\* glossary was in force as an overlay's before.
QueueIsEarned ==
    /\ gap = "approved" =>
          \E v \in everActive : GapAlias \in entries[v]
    /\ promotion = "promoted" => glossary
    /\ glossary => Tracked \in everActive /\ GapAlias \in entries[Tracked]

\* No console approves past another's rejection: when an approval takes effect
\* the gap is not dismissed, although its console may have looked
\* before it was.
NoApprovalPastReject ==
    [][handler.at = "approve_activate" /\ status' # status
       => gap # "dismissed"]_stewardshipVars

\* Seen from the overlays, whatever the queue and the consoles do is one of
\* the requests of KnowledgeOverlays, so that its theorems hold here too.
OverlaysAsSpecified == Spec
=============================================================================
