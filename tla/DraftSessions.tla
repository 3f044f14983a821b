---------------------------- MODULE DraftSessions ----------------------------
(***************************************************************************)
(* Durable draft sessions: the draft_sessions table, the requests that     *)
(* read and write it (backend/app/api/routes/mapping.py over               *)
(* persistence_service.py), and the Streamlit clients that keep a          *)
(* workspace next to it (streamlit_ui/workspace_decision_views.py).        *)
(*                                                                         *)
(* A handler runs to its end on the event loop, so handling a request is   *)
(* one action; what interleaves is the clients.  A client waits for the    *)
(* answer to its request, but only for so long: after a timeout or a       *)
(* broken connection it carries on, while the request may still be under   *)
(* way and be handled at any later time, or its answer may be lost.        *)
(*                                                                         *)
(* What a user does to the decisions or to the review filters is a mark,   *)
(* so a content is the marks it carries.  The audit of the decisions, the  *)
(* transformation and output state travel with the decisions.  Actor and   *)
(* workspace of a draft are checked alike and are one owner here.          *)
(***************************************************************************)
EXTENDS Naturals, FiniteSets

CONSTANTS
    Clients,        \* browser sessions and API clients
    Actor,          \* the actor a client is authenticated as
    NoActor,        \* ... when the server runs without authentication
    MaxDrafts,      \* bound: rows of draft_sessions
    MaxMarks,       \* bound: changes users make
    MaxRequests,    \* bound: requests clients send
    MaxTimeouts     \* bound: answers clients give up on

ASSUME DraftBoundsAssumption ==
    /\ MaxDrafts \in Nat /\ MaxMarks \in Nat
    /\ MaxRequests \in Nat /\ MaxTimeouts \in Nat

VARIABLES
    drafts,     \* the table
    workspace,  \* what each client has loaded and changed since
    wire,       \* requests under way
    awaiting,   \* the clients that wait for an answer
    answer,     \* the answer each has got and not yet read, or NoAnswer
    sent, marks, timeouts,
    published   \* history: every version of every draft ever stored

draftVars ==
    <<drafts, workspace, wire, awaiting, answer, sent, marks, timeouts, published>>
-----------------------------------------------------------------------------
DraftIds == 1..MaxDrafts
Marks == 1..MaxMarks

\* The durable state of a draft.  The section is the part of the UI a resume
\* returns to; every save records the one it was made in.
Content == [decisions : SUBSET Marks, review : SUBSET Marks,
            section : {"Review", "Decisions"}]
NoContent == [decisions |-> {}, review |-> {}, section |-> "Decisions"]

NoDraft == [version |-> 0, owner |-> NoActor, content |-> NoContent]
Exists(d) == drafts[d].version # 0

\* A client's workspace: the active draft and the version it was last told
\* of, its own decisions and review filters, and (history) every mark that
\* was on its screen since it was last loaded.
NoWorkspace == [draft |-> 0, version |-> 0, content |-> NoContent, seen |-> {}]

Kinds == {"create", "get", "put_decisions", "put_review", "put_all"}

NoAnswer == [result |-> "none", draft |-> 0, version |-> 0, content |-> NoContent]
Answer(result, d, row) ==
    [result |-> result, draft |-> d, version |-> row.version, content |-> row.content]
-----------------------------------------------------------------------------
(* The server.                                                             *)

\* _require_actor_context_match: skipped when either side is unknown.
MayAccess(c, row) == row.owner = NoActor \/ Actor[c] = NoActor \/ row.owner = Actor[c]

\* What a request asks to store: the routes for the decisions and for the
\* review state merge their part into the current detail.
Requested(r, current) ==
    CASE r.kind = "put_decisions" ->
            [current EXCEPT !.decisions = r.content.decisions, !.section = r.content.section]
      [] r.kind = "put_review" ->
            [current EXCEPT !.review = r.content.review, !.section = "Review"]
      [] OTHER -> r.content

\* Only the request for the whole draft carries the client's own actor into
\* the row, and only into a row without one.
Owner(r, row) ==
    IF r.kind = "put_all" /\ row.owner = NoActor THEN Actor[r.client] ELSE row.owner

\* A client that gave up no longer hears the answer.
Reply(r, result, d, row) ==
    answer' = IF r.late = 0
              THEN [answer EXCEPT ![r.client] = Answer(result, d, row)]
              ELSE answer

Handle(r) == r \in wire /\ wire' = wire \ {r}

Store(d, row) ==
    /\ drafts' = [drafts EXCEPT ![d] = row]
    /\ published' = published \cup {[draft |-> d, version |-> row.version,
                                     content |-> row.content]}

\* save_draft_session; AUTOINCREMENT hands out the ids in order.
HandleCreate(r) ==
    /\ Handle(r)
    /\ r.kind = "create"
    /\ \E d \in DraftIds :
          /\ ~Exists(d)
          /\ \A e \in DraftIds : e < d => Exists(e)
          /\ LET row == [version |-> 1, owner |-> Actor[r.client], content |-> r.content]
             IN Store(d, row) /\ Reply(r, "saved", d, row)
    /\ UNCHANGED <<workspace, awaiting, sent, marks, timeouts>>

HandleGet(r) ==
    /\ Handle(r)
    /\ r.kind = "get"
    /\ MayAccess(r.client, drafts[r.draft])
    /\ Reply(r, "loaded", r.draft, drafts[r.draft])
    /\ UNCHANGED <<drafts, workspace, awaiting, sent, marks, timeouts, published>>

IsPut(r) == r.kind \in {"put_decisions", "put_review", "put_all"}
MaySave(r) == IsPut(r) /\ MayAccess(r.client, drafts[r.draft])

Fresh(r) == MaySave(r) /\ r.expected = drafts[r.draft].version

\* A broken row that takes the owner from the request first.
UpdatedByWriter(r, row) ==
    [version |-> row.version + 1, owner |-> Actor[r.client],
     content |-> Requested(r, row.content)]

\* A broken row whose version stays when only the review filters change.
UpdatedForDecisions(r, row) ==
    [version |-> IF r.kind = "put_review" THEN row.version ELSE row.version + 1,
     owner |-> Owner(r, row), content |-> Requested(r, row.content)]

Updated(r, row) ==
    [version |-> row.version + 1, owner |-> Owner(r, row),
     content |-> Requested(r, row.content)]

\* update_draft_session: a write that changes nothing durable returns the row
\* as it is, its owner included.
HandleUpdate(r) ==
    /\ Handle(r)
    /\ Fresh(r)
    /\ LET row == drafts[r.draft] IN
       IF Requested(r, row.content) = row.content
       THEN /\ Reply(r, "saved", r.draft, row)
            /\ UNCHANGED <<drafts, published>>
       ELSE /\ Store(r.draft, Updated(r, row))
            /\ Reply(r, "saved", r.draft, Updated(r, row))
    /\ UNCHANGED <<workspace, awaiting, sent, marks, timeouts>>

HandleStale(r) ==
    /\ Handle(r)
    /\ MaySave(r)
    /\ ~Fresh(r)
    /\ Reply(r, "stale", r.draft, drafts[r.draft])
    /\ UNCHANGED <<drafts, workspace, awaiting, sent, marks, timeouts, published>>

\* A request on a draft of another actor, answered with a plain error.
HandleRefused(r) ==
    /\ Handle(r)
    /\ r.kind # "create"
    /\ ~MayAccess(r.client, drafts[r.draft])
    /\ Reply(r, "refused", r.draft, NoDraft)
    /\ UNCHANGED <<drafts, workspace, awaiting, sent, marks, timeouts, published>>
-----------------------------------------------------------------------------
(* The clients.                                                            *)

Idle(c) == c \notin awaiting

Request(c, kind, d) ==
    [client |-> c, late |-> 0, kind |-> kind, draft |-> d,
     expected |-> workspace[c].version, content |-> workspace[c].content,
     knew |-> workspace[c].seen]

Send(c, kind, d) ==
    /\ sent < MaxRequests
    /\ sent' = sent + 1
    /\ wire' = wire \cup {Request(c, kind, d)}
    /\ awaiting' = awaiting \cup {c}
    /\ UNCHANGED <<drafts, workspace, marks, timeouts, published>>

\* "Save draft session" under a name, with or without an active draft.
Create(c) ==
    /\ Idle(c)
    /\ workspace[c].content.decisions # {}
    /\ Cardinality({r \in wire : r.kind = "create"})
          < Cardinality({d \in DraftIds : ~Exists(d)})      \* bound MaxDrafts
    /\ Send(c, "create", 0)
    /\ UNCHANGED answer

\* "Resume draft session" of a listed draft.
Resume(c, d) == Idle(c) /\ Exists(d) /\ Send(c, "get", d) /\ UNCHANGED answer

\* "Save decisions", "Save review state", or a PUT of the whole draft.
Save(c) ==
    /\ Idle(c)
    /\ workspace[c].draft # 0
    /\ \E kind \in {"put_decisions", "put_review", "put_all"} :
          Send(c, kind, workspace[c].draft)
    /\ UNCHANGED answer

\* The user changes the workspace: a decision, the filters, the decisions as a
\* whole (a mapping set applied, another mapping run), the section shown.
Change(c, content) ==
    /\ Idle(c)
    /\ marks < MaxMarks
    /\ marks' = marks + 1
    /\ workspace' = [workspace EXCEPT ![c].content = content,
                                      ![c].seen = @ \cup {marks + 1}]
    /\ UNCHANGED <<drafts, wire, awaiting, answer, sent, timeouts, published>>

Edit(c) ==
    LET old == workspace[c].content IN
    \/ Change(c, [old EXCEPT !.decisions = @ \cup {marks + 1}, !.section = "Decisions"])
    \/ Change(c, [old EXCEPT !.decisions = {marks + 1}, !.section = "Decisions"])
    \/ Change(c, [old EXCEPT !.review = {marks + 1}, !.section = "Review"])

\* A new upload: _reset_workspace_mapping_state.  The review filters stay.
Upload(c) ==
    /\ Idle(c)
    /\ workspace' = [workspace EXCEPT
          ![c] = [NoWorkspace EXCEPT !.content.review = workspace[c].content.review,
                                     !.seen = workspace[c].content.review]]
    /\ UNCHANGED <<drafts, wire, awaiting, answer, sent, marks, timeouts, published>>

\* The workspace once a draft is loaded into it.
Loaded(a) ==
    [draft |-> a.draft, version |-> a.version, content |-> a.content,
     seen |-> a.content.decisions \cup a.content.review]

\* _set_active_draft_session: the version moves, the workspace stays.
Told(w, a) == [w EXCEPT !.draft = a.draft, !.version = a.version]

Hear(c, results) ==
    /\ answer[c].result \in results
    /\ answer' = [answer EXCEPT ![c] = NoAnswer]

Acknowledged(c) ==
    /\ Hear(c, {"saved"})
    /\ workspace' = [workspace EXCEPT ![c] = Told(@, answer[c])]
    /\ awaiting' = awaiting \ {c}
    /\ UNCHANGED <<drafts, wire, sent, marks, timeouts, published>>

Restored(c) ==
    /\ Hear(c, {"loaded"})
    /\ workspace' = [workspace EXCEPT ![c] = Loaded(answer[c])]
    /\ awaiting' = awaiting \ {c}
    /\ UNCHANGED <<drafts, wire, sent, marks, timeouts, published>>

\* A broken client that takes the version out of the stale answer.
StaleVersionTaken(c) ==
    /\ Hear(c, {"stale"})
    /\ workspace' = [workspace EXCEPT ![c] = Told(@, answer[c])]
    /\ awaiting' = awaiting \ {c}
    /\ UNCHANGED <<drafts, wire, sent, marks, timeouts, published>>

\* _reload_active_draft_after_stale: fetch the draft before anything else.
Reload(c) ==
    /\ Hear(c, {"stale"})
    /\ Send(c, "get", workspace[c].draft)

\* An error is shown and nothing changes: the request was refused, the draft
\* does not fit the data uploaded since, or the answer is stale and the bound
\* on requests leaves none for the reload.
Failed(c) ==
    /\ Hear(c, {"refused", "loaded"} \cup (IF sent < MaxRequests THEN {} ELSE {"stale"}))
    /\ awaiting' = awaiting \ {c}
    /\ UNCHANGED <<drafts, workspace, wire, sent, marks, timeouts, published>>

\* A request is late once its client has given up, and named by the timeout.
GivenUp(r, c) ==
    IF r.client = c /\ r.late = 0 THEN [r EXCEPT !.late = timeouts + 1] ELSE r

\* api_request gives up after 60 seconds, before or after the handler ran.
Timeout(c) ==
    /\ ~Idle(c)
    /\ timeouts < MaxTimeouts
    /\ timeouts' = timeouts + 1
    /\ awaiting' = awaiting \ {c}
    /\ answer' = [answer EXCEPT ![c] = NoAnswer]
    /\ wire' = {GivenUp(r, c) : r \in wire}
    /\ UNCHANGED <<drafts, workspace, sent, marks, published>>
-----------------------------------------------------------------------------
Init ==
    /\ drafts = [d \in DraftIds |-> NoDraft]
    /\ workspace = [c \in Clients |-> NoWorkspace]
    /\ wire = {}
    /\ awaiting = {}
    /\ answer = [c \in Clients |-> NoAnswer]
    /\ sent = 0 /\ marks = 0 /\ timeouts = 0
    /\ published = {}

Server ==
    \E r \in wire : HandleCreate(r) \/ HandleGet(r) \/ HandleUpdate(r)
                    \/ HandleStale(r) \/ HandleRefused(r)

Client(c) ==
    \/ Create(c) \/ Save(c) \/ Edit(c) \/ Upload(c)
    \/ \E d \in DraftIds : Resume(c, d)
    \/ Acknowledged(c) \/ Restored(c) \/ Reload(c) \/ Failed(c) \/ Timeout(c)

Next == Server \/ \E c \in Clients : Client(c)

Spec == Init /\ [][Next]_draftVars
-----------------------------------------------------------------------------
(* Properties.                                                             *)

Row == [version : Nat, owner : {NoActor} \cup {Actor[c] : c \in Clients},
        content : Content]

\* Rows, workspaces and messages are what the payload models allow, and a
\* workspace has an active draft exactly when it has a version to expect.
DraftTypeOK ==
    /\ drafts \in [DraftIds -> Row]
    /\ workspace \in [Clients -> [draft : 0..MaxDrafts, version : Nat,
                                  content : Content, seen : SUBSET Marks]]
    /\ \A c \in Clients : workspace[c].draft = 0 <=> workspace[c].version = 0
    /\ wire \subseteq [client : Clients, late : 0..timeouts, kind : Kinds,
                       draft : 0..MaxDrafts, expected : Nat,
                       content : Content, knew : SUBSET Marks]
    /\ awaiting \subseteq Clients
    /\ answer \in [Clients -> [result : {"none", "saved", "loaded", "stale", "refused"},
                               draft : 0..MaxDrafts, version : Nat,
                               content : Content]]
    /\ sent \in 0..MaxRequests
    /\ marks \in 0..MaxMarks
    /\ timeouts \in 0..MaxTimeouts
    /\ published \subseteq [draft : DraftIds, version : Nat \ {0}, content : Content]

Discarded(old, new) ==
    (old.decisions \ new.decisions) \cup (old.review \ new.review)

\* No lost update: whatever a write takes away from a draft had been on its
\* author's screen when it was sent, although an acknowledged save moves the
\* client's version on without showing it the draft, the decisions and the
\* review state are saved by separate requests, and requests arrive late.
NoBlindOverwrite ==
    [][\A d \in DraftIds :
          Exists(d) /\ drafts'[d] # drafts[d] =>
             \E r \in wire \ wire' :
                Discarded(drafts[d].content, drafts'[d].content) \subseteq r.knew]_draftVars

\* A version number names one content of a draft for good: that is what
\* expected_version rests on.
VersionNamesContent ==
    \A p, q \in published :
        p.draft = q.draft /\ p.version = q.version => p.content = q.content

\* A draft that belongs to an actor keeps its owner, and only that actor, or a
\* client of a server without authentication, ever changes it.
OwnedDraftsArePrivate ==
    [][\A d \in DraftIds :
          drafts[d].owner # NoActor /\ drafts'[d] # drafts[d] =>
             /\ drafts'[d].owner = drafts[d].owner
             /\ \E r \in wire \ wire' : Actor[r.client] \in {NoActor, drafts[d].owner}]_draftVars
=============================================================================
