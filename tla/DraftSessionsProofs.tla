------------------------ MODULE DraftSessionsProofs ------------------------
(***************************************************************************)
(* Theorems about DraftSessions, for any clients and actors, any number of *)
(* drafts, marks, requests and timeouts.                                   *)
(***************************************************************************)
EXTENDS DraftSessions, TLAPS

-----------------------------------------------------------------------------
(* The inductive invariant.                                                *)

MarksOf(x) == x.decisions \cup x.review

\* Version v of draft d was stored with nothing in it that is not in seen.
Knows(d, v, seen) ==
    \E p \in published : p.draft = d /\ p.version = v /\ MarksOf(p.content) \subseteq seen

\* The table holds the last version of every draft, no version is used twice,
\* and what is no row has no owner.
TableInv ==
    /\ \A d \in DraftIds : ~Exists(d) => drafts[d].owner = NoActor
    /\ \A d \in DraftIds : Exists(d) =>
          [draft |-> d, version |-> drafts[d].version, content |-> drafts[d].content]
              \in published
    /\ \A p \in published : Exists(p.draft) /\ p.version <= drafts[p.draft].version
    /\ VersionNamesContent

\* A client has seen its own content, and of its active draft the version it
\* will expect, although it may never have loaded that version.
WorkspaceInv ==
    \A c \in Clients :
        /\ MarksOf(workspace[c].content) \subseteq workspace[c].seen
        /\ workspace[c].draft # 0 =>
              Knows(workspace[c].draft, workspace[c].version, workspace[c].seen)

\* So had the client that sent a request, however late it is.
WireInv ==
    \A r \in wire :
        /\ MarksOf(r.content) \subseteq r.knew
        /\ IsPut(r) => r.draft \in DraftIds /\ Knows(r.draft, r.expected, r.knew)
        /\ r.kind = "get" => r.draft \in DraftIds /\ Exists(r.draft)

\* A client that waits for an answer has not moved on since it sent the one
\* request that may bring it.
WaitInv ==
    /\ \A r \in wire : r.late = 0 =>
          /\ r.client \in awaiting
          /\ answer[r.client].result = "none"
          /\ r.knew = workspace[r.client].seen
          /\ IsPut(r) => workspace[r.client].draft # 0
    /\ \A r, s \in wire : r.late = 0 /\ s.late = 0 /\ r.client = s.client => r = s

\* An answer tells a version that was stored; the client that saved it has
\* seen all of it.
AnswerInv ==
    \A c \in Clients : LET a == answer[c] IN
        /\ a.result # "none" => c \in awaiting
        /\ a.result \in {"saved", "loaded"} =>
              [draft |-> a.draft, version |-> a.version, content |-> a.content] \in published
        /\ a.result = "saved" => MarksOf(a.content) \subseteq workspace[c].seen
        /\ a.result = "stale" => workspace[c].draft # 0

DraftInv == DraftTypeOK /\ TableInv /\ WorkspaceInv /\ WireInv /\ WaitInv /\ AnswerInv

-----------------------------------------------------------------------------
(* What the steps of the server come to.                                   *)

Rows == [version : Nat, owner : {NoActor} \cup {Actor[c] : c \in Clients},
         content : Content]

\* Request r is answered result with row of draft d, which is the row in the
\* table, a new version of it, or (refused) no row at all.
Served(r, result, d, row) ==
    /\ Handle(r)
    /\ Reply(r, result, d, row)
    /\ UNCHANGED <<workspace, awaiting, sent, marks, timeouts>>
    /\ row \in Rows
    /\ \/ /\ UNCHANGED <<drafts, published>>
          /\ result \in {"saved", "loaded"} => Exists(d) /\ row = drafts[d]
       \/ /\ Store(d, row)
          /\ row.version = drafts[d].version + 1
          /\ result = "saved"
    /\ result = "saved" => MarksOf(row.content) \subseteq r.knew
    /\ result = "stale" => IsPut(r)

Results == {"saved", "loaded", "stale", "refused"}

\* A client that knows the current version of a draft has seen its content.
LEMMA KnownContent ==
    ASSUME DraftInv, NEW d \in DraftIds, NEW seen,
           Knows(d, drafts[d].version, seen)
    PROVE  MarksOf(drafts[d].content) \subseteq seen
  <1>1. PICK p \in published :
            /\ p.draft = d /\ p.version = drafts[d].version
            /\ MarksOf(p.content) \subseteq seen
    BY DEF Knows
  <1> DEFINE q == [draft |-> d, version |-> drafts[d].version, content |-> drafts[d].content]
  <1>2. q \in published
    BY <1>1 DEF DraftInv, TableInv
  <1>3. p.content = q.content
    BY <1>1, <1>2 DEF DraftInv, TableInv, VersionNamesContent
  <1> QED
    BY <1>1, <1>3

\* What a save stores is made of the current content and of its own.
LEMMA RequestedContent ==
    ASSUME NEW r, NEW x \in Content, r.content \in Content
    PROVE  /\ Requested(r, x) \in Content
           /\ MarksOf(Requested(r, x)) \subseteq MarksOf(x) \cup MarksOf(r.content)
  <1>1. CASE r.kind = "put_decisions"
    BY <1>1 DEF Requested, Content, MarksOf
  <1>2. CASE r.kind = "put_review"
    BY <1>2 DEF Requested, Content, MarksOf
  <1>3. CASE r.kind \notin {"put_decisions", "put_review"}
    BY <1>3 DEF Requested, Content, MarksOf
  <1> QED
    BY <1>1, <1>2, <1>3

\* Every step of the server serves one request.
LEMMA ServerServes ==
    ASSUME DraftInv, Server
    PROVE  \E r \in wire, result \in Results, d \in DraftIds, row \in Rows : Served(r, result, d, row)
  <1>1. PICK r \in wire : \/ HandleCreate(r) \/ HandleGet(r) \/ HandleUpdate(r)
                          \/ HandleStale(r) \/ HandleRefused(r)
    BY DEF Server
  <1>2. /\ r.client \in Clients /\ r.content \in Content /\ r.kind \in Kinds
        /\ MarksOf(r.content) \subseteq r.knew
        /\ Actor[r.client] \in {Actor[c] : c \in Clients}
    BY DEF DraftInv, DraftTypeOK, WireInv
  <1>3. \A d \in DraftIds : drafts[d] \in Rows
    BY DEF DraftInv, DraftTypeOK, Row, Rows
  <1>4. IsPut(r) \/ r.kind = "get" => r.draft \in DraftIds /\ Exists(r.draft)
    BY DEF DraftInv, WireInv, TableInv, Knows
  <1>5. CASE HandleCreate(r)
    <2>1. PICK d \in DraftIds :
              /\ ~Exists(d)
              /\ LET row == [version |-> 1, owner |-> Actor[r.client], content |-> r.content]
                 IN Store(d, row) /\ Reply(r, "saved", d, row)
      BY <1>5 DEF HandleCreate
    <2> DEFINE row == [version |-> 1, owner |-> Actor[r.client], content |-> r.content]
    <2>2. row \in Rows
      BY <1>2 DEF Rows
    <2>3. row.version = drafts[d].version + 1 /\ row.content = r.content
      BY <2>1 DEF Exists
    <2>4. Served(r, "saved", d, row)
      BY <1>2, <1>5, <2>1, <2>2, <2>3 DEF Served, HandleCreate
    <2> QED
      BY <2>1, <2>2, <2>4 DEF Results
  <1>6. CASE HandleGet(r)
    <2>1. Served(r, "loaded", r.draft, drafts[r.draft])
      BY <1>3, <1>4, <1>6 DEF Served, HandleGet
    <2> QED
      BY <1>3, <1>4, <1>6, <2>1 DEF Results, HandleGet
  <1>7. CASE HandleUpdate(r)
    <2> DEFINE d == r.draft
    <2> DEFINE old == drafts[d]
    <2>1. d \in DraftIds /\ Exists(d) /\ old \in Rows
      BY <1>3, <1>4, <1>7 DEF HandleUpdate, Fresh, MaySave
    <2>2. MarksOf(old.content) \subseteq r.knew
      BY <1>7, <2>1, KnownContent
         DEF HandleUpdate, Fresh, MaySave, DraftInv, WireInv
    <2>3. old.content \in Content
      BY <2>1 DEF Rows
    <2>4. /\ Requested(r, old.content) \in Content
          /\ MarksOf(Requested(r, old.content)) \subseteq r.knew
      BY <1>2, <2>2, <2>3, RequestedContent
    <2>5. CASE Requested(r, old.content) = old.content
      <3>1. Served(r, "saved", d, old)
        BY <1>7, <2>1, <2>2, <2>5 DEF Served, HandleUpdate
      <3> QED
        BY <2>1, <3>1 DEF Results
    <2>6. CASE Requested(r, old.content) # old.content
      <3> DEFINE new == Updated(r, old)
      <3>1. new \in Rows
        BY <1>2, <2>1, <2>4 DEF Updated, Owner, Rows
      <3>2. new.version = old.version + 1 /\ new.content = Requested(r, old.content)
        BY DEF Updated
      <3>3. Store(d, new) /\ Reply(r, "saved", d, new)
        BY <1>7, <2>6 DEF HandleUpdate
      <3>4. Served(r, "saved", d, new)
        BY <1>7, <2>4, <3>1, <3>2, <3>3 DEF Served, HandleUpdate
      <3> QED
        BY <2>1, <3>1, <3>4 DEF Results
    <2> QED
      BY <2>5, <2>6
  <1>8. CASE HandleStale(r)
    <2>1. Served(r, "stale", r.draft, drafts[r.draft])
      BY <1>3, <1>4, <1>8 DEF Served, HandleStale, MaySave
    <2> QED
      BY <1>3, <1>4, <1>8, <2>1 DEF Results, HandleStale, MaySave
  <1>9. CASE HandleRefused(r)
    <2>1. NoDraft \in Rows
      BY DEF NoDraft, Rows, Content, NoContent
    <2>2. Served(r, "refused", r.draft, NoDraft)
      BY <1>9, <2>1 DEF Served, HandleRefused
    <2> QED
      BY <1>2, <1>4, <1>9, <2>1, <2>2 DEF Results, HandleRefused, Kinds, IsPut
  <1> QED
    BY <1>1, <1>5, <1>6, <1>7, <1>8, <1>9

-----------------------------------------------------------------------------
(* What the steps of the clients come to.                                  *)

\* Client c sends a request and forgets the answer it had, if any.
Sends(c, kind, d) ==
    /\ Send(c, kind, d)
    /\ answer' \in {answer, [answer EXCEPT ![c] = NoAnswer]}
    /\ answer'[c].result = "none"
    /\ kind \in Kinds
    /\ d \in 0..MaxDrafts
    /\ \A r \in wire : r.late = 0 => r.client # c
    /\ kind = "get" => d \in DraftIds /\ Exists(d)
    /\ kind \in {"put_decisions", "put_review", "put_all"} =>
          d = workspace[c].draft /\ d # 0

\* Client c hears an answer and has the workspace w afterwards.
Hears(c, w) ==
    /\ answer[c].result # "none"
    /\ answer' = [answer EXCEPT ![c] = NoAnswer]
    /\ workspace' = [workspace EXCEPT ![c] = w]
    /\ awaiting' = awaiting \ {c}
    /\ UNCHANGED <<drafts, wire, sent, marks, timeouts, published>>

\* Client c works on, with more on its screen, or starts afresh.
Works(c, w) ==
    /\ Idle(c)
    /\ workspace' = [workspace EXCEPT ![c] = w]
    /\ marks' \in marks..MaxMarks
    /\ UNCHANGED <<drafts, wire, awaiting, answer, sent, timeouts, published>>

Workspaces == [draft : 0..MaxDrafts, version : Nat, content : Content, seen : SUBSET Marks]

\* A workspace its client has seen and whose draft it knows.
Sound(w) ==
    /\ w \in Workspaces
    /\ w.draft = 0 <=> w.version = 0
    /\ MarksOf(w.content) \subseteq w.seen
    /\ w.draft # 0 => Knows(w.draft, w.version, w.seen)

\* What the invariant says of one client.
LEMMA WorkspacesAreSound ==
    ASSUME DraftInv, NEW c \in Clients
    PROVE  Sound(workspace[c])
  BY DEF DraftInv, DraftTypeOK, WorkspaceInv, Sound, Workspaces

\* An active draft of a client is a row of the table.
LEMMA KnownDraftExists ==
    ASSUME DraftInv, NEW d, NEW v, NEW seen, Knows(d, v, seen)
    PROVE  d \in DraftIds /\ Exists(d)
  BY DEF DraftInv, DraftTypeOK, TableInv, Knows

\* Of a client without an answer that waits for none, nothing is under way.
LEMMA NothingUnderWay ==
    ASSUME DraftInv, NEW c \in Clients, Idle(c) \/ answer[c].result # "none"
    PROVE  \A r \in wire : r.late = 0 => r.client # c
  BY DEF DraftInv, WaitInv, Idle

\* A client that waits for nothing has no answer to read.
LEMMA IdleHasNoAnswer ==
    ASSUME DraftInv, NEW c \in Clients, Idle(c)
    PROVE  answer[c].result = "none"
  BY DEF DraftInv, AnswerInv, Idle

\* A client knows no less of a draft for having seen more.
LEMMA SeenGrows ==
    ASSUME NEW d, NEW v, NEW seen, NEW more, Knows(d, v, seen)
    PROVE  Knows(d, v, seen \cup more)
  BY DEF Knows

\* What a change of the content leaves of a sound workspace is sound.
LEMMA ChangeWorks ==
    ASSUME DraftInv, NEW c \in Clients, NEW content \in Content, Change(c, content),
           MarksOf(content) \subseteq workspace[c].seen \cup {marks + 1}
    PROVE  \E w : Sound(w) /\ Works(c, w)
  <1> DEFINE old == workspace[c]
  <1> DEFINE w == [old EXCEPT !.content = content, !.seen = @ \cup {marks + 1}]
  <1>1. Sound(old)
    BY WorkspacesAreSound
  <1>2. marks + 1 \in Marks /\ marks + 1 \in marks..MaxMarks
    BY DraftBoundsAssumption DEF Change, DraftInv, DraftTypeOK, Marks
  <1>3. /\ w.draft = old.draft /\ w.version = old.version
        /\ w.content = content /\ w.seen = old.seen \cup {marks + 1}
        /\ w \in Workspaces
    BY <1>1, <1>2 DEF Sound, Workspaces
  <1>4. w.draft # 0 => Knows(w.draft, w.version, w.seen)
    <2> HIDE DEF w
    <2> SUFFICES ASSUME w.draft # 0 PROVE Knows(w.draft, w.version, w.seen)
      OBVIOUS
    <2>1. Knows(old.draft, old.version, old.seen)
      BY <1>1, <1>3 DEF Sound
    <2>2. Knows(old.draft, old.version, old.seen \cup {marks + 1})
      BY <2>1, SeenGrows
    <2> QED
      BY <1>3, <2>2
  <1>5. Sound(w)
    BY <1>1, <1>3, <1>4 DEF Sound
  <1>6. workspace' = [workspace EXCEPT ![c] = w]
    BY DEF Change, DraftInv, DraftTypeOK
  <1>7. Works(c, w)
    BY <1>2, <1>6 DEF Works, Change
  <1> QED
    BY <1>5, <1>7

\* Every edit is such a change.
LEMMA EditWorks ==
    ASSUME DraftInv, NEW c \in Clients, Edit(c)
    PROVE  \E w : Sound(w) /\ Works(c, w)
  <1> DEFINE old == workspace[c].content
  <1> DEFINE x == [old EXCEPT !.decisions = @ \cup {marks + 1}, !.section = "Decisions"]
  <1> DEFINE y == [old EXCEPT !.decisions = {marks + 1}, !.section = "Decisions"]
  <1> DEFINE z == [old EXCEPT !.review = {marks + 1}, !.section = "Review"]
  <1>1. Change(c, x) \/ Change(c, y) \/ Change(c, z)
    BY DEF Edit
  <1>2. old \in Content /\ MarksOf(old) \subseteq workspace[c].seen
    BY WorkspacesAreSound DEF Sound, Workspaces
  <1>3. marks + 1 \in Marks
    BY <1>1, DraftBoundsAssumption DEF Change, DraftInv, DraftTypeOK, Marks
  <1>4. /\ x \in Content /\ y \in Content /\ z \in Content
        /\ MarksOf(x) \subseteq workspace[c].seen \cup {marks + 1}
        /\ MarksOf(y) \subseteq workspace[c].seen \cup {marks + 1}
        /\ MarksOf(z) \subseteq workspace[c].seen \cup {marks + 1}
    BY <1>2, <1>3 DEF Content, MarksOf
  <1> QED
    BY <1>1, <1>4, ChangeWorks

\* A new upload leaves the review filters and no active draft.
LEMMA UploadWorks ==
    ASSUME DraftInv, NEW c \in Clients, Upload(c)
    PROVE  \E w : Sound(w) /\ Works(c, w)
  <1> DEFINE filters == workspace[c].content.review
  <1> DEFINE w == [NoWorkspace EXCEPT !.content.review = filters, !.seen = filters]
  <1>1. filters \in SUBSET Marks
    BY WorkspacesAreSound DEF Sound, Workspaces, Content
  <1> DEFINE x == [decisions |-> {}, review |-> filters, section |-> "Decisions"]
  <1>a. [NoContent EXCEPT !.review = filters] = x
    BY DEF NoContent
  <1>b. NoWorkspace.content = NoContent
    BY DEF NoWorkspace
  <1>c. [NoWorkspace EXCEPT !.content = x]
            = [draft |-> 0, version |-> 0, content |-> x, seen |-> {}]
    BY DEF NoWorkspace
  <1>d. w = [draft |-> 0, version |-> 0, content |-> x, seen |-> filters]
    <2> DEFINE u == [draft |-> 0, version |-> 0, content |-> x, seen |-> {}]
    <2>1. [u EXCEPT !.seen = filters]
              = [draft |-> 0, version |-> 0, content |-> x, seen |-> filters]
      OBVIOUS
    <2>3. w = [[NoWorkspace EXCEPT !.content = x] EXCEPT !.seen = filters]
      BY <1>a, <1>b
    <2>4. w = [u EXCEPT !.seen = filters]
      BY <1>c, <2>3
    <2> QED
      BY <2>1, <2>4
  <1>2. /\ w.draft = 0 /\ w.version = 0 /\ w.seen = filters /\ w.content = x
        /\ w \in Workspaces
    <2> HIDE DEF w
    <2> QED
      BY <1>1, <1>d, DraftBoundsAssumption DEF Workspaces, Content
  <1>3. Sound(w)
    <2> HIDE DEF w
    <2> QED
      BY <1>2 DEF Sound, MarksOf
  <1>4. marks \in marks..MaxMarks
    BY DraftBoundsAssumption DEF DraftInv, DraftTypeOK
  <1>5. workspace' = [workspace EXCEPT ![c] = w] /\ marks' = marks
    BY DEF Upload
  <1>6. Works(c, w)
    BY <1>4, <1>5 DEF Works, Upload
  <1> QED
    BY <1>3, <1>6

\* Every step of a client sends, hears an answer, works on or gives up.
LEMMA ClientActs ==
    ASSUME DraftInv, NEW c \in Clients, Client(c)
    PROVE  \/ \E kind, d : Sends(c, kind, d)
           \/ \E w : Sound(w) /\ (Hears(c, w) \/ Works(c, w))
           \/ Timeout(c)
  <1>1. Sound(workspace[c])
    BY WorkspacesAreSound
  <1>2. workspace[c].draft # 0 =>
            workspace[c].draft \in DraftIds /\ Exists(workspace[c].draft)
    BY <1>1, KnownDraftExists DEF Sound
  <1>3. DraftIds \subseteq 0..MaxDrafts /\ 0 \in 0..MaxDrafts
    BY DraftBoundsAssumption DEF DraftIds
  <1>4. CASE Create(c)
    <2>1. Sends(c, "create", 0)
      BY <1>3, <1>4, NothingUnderWay, IdleHasNoAnswer DEF Create, Sends, Kinds
    <2> QED
      BY <2>1
  <1>5. CASE Save(c)
    <2>1. PICK kind \in {"put_decisions", "put_review", "put_all"} :
              Send(c, kind, workspace[c].draft)
      BY <1>5 DEF Save
    <2>2. Sends(c, kind, workspace[c].draft)
      BY <1>2, <1>3, <1>5, <2>1, NothingUnderWay, IdleHasNoAnswer DEF Save, Sends, Kinds
    <2> QED
      BY <2>2
  <1>6. CASE \E d \in DraftIds : Resume(c, d)
    <2>1. PICK d \in DraftIds : Resume(c, d)
      BY <1>6
    <2>2. Sends(c, "get", d)
      BY <1>3, <2>1, NothingUnderWay, IdleHasNoAnswer DEF Resume, Sends, Kinds
    <2> QED
      BY <2>2
  <1>7. CASE Reload(c)
    <2>1. workspace[c].draft # 0 /\ answer[c].result # "none"
      BY <1>7 DEF Reload, Hear, DraftInv, AnswerInv
    <2>2. answer' = [answer EXCEPT ![c] = NoAnswer] /\ answer'[c].result = "none"
      BY <1>7 DEF Reload, Hear, NoAnswer, DraftInv, DraftTypeOK
    <2>3. Sends(c, "get", workspace[c].draft)
      BY <1>2, <1>3, <1>7, <2>1, <2>2, NothingUnderWay DEF Reload, Sends, Kinds
    <2> QED
      BY <2>3
  <1>8. CASE Acknowledged(c)
    <2> DEFINE w == Told(workspace[c], answer[c])
    <2> DEFINE p == [draft |-> answer[c].draft, version |-> answer[c].version,
                     content |-> answer[c].content]
    <2>1. p \in published /\ MarksOf(p.content) \subseteq workspace[c].seen
      BY <1>8 DEF Acknowledged, Hear, DraftInv, AnswerInv
    <2>2. p.draft \in DraftIds /\ p.version \in Nat \ {0}
      BY <2>1 DEF DraftInv, DraftTypeOK
    <2>3. /\ w.draft = p.draft /\ w.version = p.version
          /\ w.content = workspace[c].content /\ w.seen = workspace[c].seen
          /\ w \in Workspaces
      BY <1>1, <1>3, <2>2 DEF Told, Sound, Workspaces
    <2>4. Knows(w.draft, w.version, w.seen)
      BY <2>1, <2>3 DEF Knows
    <2>5. Sound(w)
      BY <1>1, <2>2, <2>3, <2>4 DEF Sound, DraftIds
    <2>6. Hears(c, w)
      BY <1>8 DEF Acknowledged, Hear, Hears
    <2> QED
      BY <2>5, <2>6
  <1>9. CASE Restored(c)
    <2> DEFINE w == Loaded(answer[c])
    <2> DEFINE p == [draft |-> answer[c].draft, version |-> answer[c].version,
                     content |-> answer[c].content]
    <2>1. p \in published
      BY <1>9 DEF Restored, Hear, DraftInv, AnswerInv
    <2>2. p.draft \in DraftIds /\ p.version \in Nat \ {0} /\ p.content \in Content
      BY <2>1 DEF DraftInv, DraftTypeOK
    <2>3. /\ w.draft = p.draft /\ w.version = p.version
          /\ w.content = p.content /\ w.seen = MarksOf(p.content)
      BY DEF Loaded, MarksOf
    <2>4. w \in Workspaces
      BY <1>3, <2>2 DEF Loaded, Workspaces, Content
    <2>5. Knows(w.draft, w.version, w.seen)
      BY <2>1, <2>3 DEF Knows
    <2>6. Sound(w)
      BY <2>2, <2>3, <2>4, <2>5 DEF Sound, DraftIds
    <2>7. Hears(c, w)
      BY <1>9 DEF Restored, Hear, Hears
    <2> QED
      BY <2>6, <2>7
  <1>10. CASE Failed(c)
    <2>1. answer[c].result # "none"
      BY <1>10 DEF Failed, Hear
    <2>2. workspace' = [workspace EXCEPT ![c] = workspace[c]]
      BY <1>10 DEF Failed, DraftInv, DraftTypeOK
    <2>3. Hears(c, workspace[c])
      BY <1>10, <2>1, <2>2 DEF Failed, Hear, Hears
    <2> QED
      BY <1>1, <2>3
  <1> QED
    BY <1>4, <1>5, <1>6, <1>7, <1>8, <1>9, <1>10, EditWorks, UploadWorks DEF Client

-----------------------------------------------------------------------------
(* The invariant is inductive: one lemma for each kind of step.            *)

\* The server answers a request.
LEMMA ServedKeeps ==
    ASSUME DraftInv, NEW r \in wire, NEW result \in Results, NEW d \in DraftIds, NEW row,
           Served(r, result, d, row)
    PROVE  DraftInv'
  <1> DEFINE a == Answer(result, d, row)
  <1> DEFINE new == [draft |-> d, version |-> row.version, content |-> row.content]
  <1>1. /\ wire' = wire \ {r} /\ UNCHANGED <<workspace, awaiting, sent, marks, timeouts>>
        /\ row.version \in Nat /\ row.content \in Content
    BY DEF Served, Handle, Rows
  <1>2. /\ a.result = result /\ a.draft = d
        /\ a.version = row.version /\ a.content = row.content
    BY DEF Answer
  <1>3. \A c \in Clients : answer'[c] = answer[c] \/ (answer'[c] = a /\ c = r.client /\ r.late = 0)
    BY DEF Served, Reply, DraftInv, DraftTypeOK
  <1>4. \/ /\ UNCHANGED <<drafts, published>>
           /\ result \in {"saved", "loaded"} => Exists(d) /\ row = drafts[d]
        \/ /\ drafts' = [drafts EXCEPT ![d] = row]
           /\ published' = published \cup {new}
           /\ row.version = drafts[d].version + 1
    BY DEF Served, Store
  <1>5. DraftTypeOK'
    <2>1. drafts' \in [DraftIds -> Row]
      BY <1>4 DEF DraftInv, DraftTypeOK, Row, Rows, Served
    <2>2. answer' \in [Clients -> [result : {"none", "saved", "loaded", "stale", "refused"},
                                   draft : 0..MaxDrafts, version : Nat, content : Content]]
      <3>1. a \in [result : {"none", "saved", "loaded", "stale", "refused"},
                   draft : 0..MaxDrafts, version : Nat, content : Content]
        BY <1>1, DraftBoundsAssumption DEF Answer, Results, DraftIds
      <3>2. answer' = [answer EXCEPT ![r.client] = a] \/ answer' = answer
        BY DEF Served, Reply
      <3> QED
        BY <3>1, <3>2 DEF DraftInv, DraftTypeOK
    <2>3. published' \subseteq [draft : DraftIds, version : Nat \ {0}, content : Content]
      <3>1. CASE published' = published
        BY <3>1 DEF DraftInv, DraftTypeOK
      <3>2. CASE published' = published \cup {new} /\ row.version = drafts[d].version + 1
        <4>1. drafts[d].version \in Nat
          BY DEF DraftInv, DraftTypeOK, Row
        <4>2. row.version \in Nat \ {0}
          BY <1>1, <3>2, <4>1
        <4> QED
          BY <1>1, <3>2, <4>2 DEF DraftInv, DraftTypeOK
      <3> QED
        BY <1>4, <3>1, <3>2
    <2> QED
      BY <1>1, <2>1, <2>2, <2>3 DEF DraftInv, DraftTypeOK
  <1>6. TableInv'
    <2>1. CASE UNCHANGED <<drafts, published>>
      BY <2>1 DEF DraftInv, TableInv, VersionNamesContent, Exists
    <2>2. CASE /\ drafts' = [drafts EXCEPT ![d] = row]
               /\ published' = published \cup {new}
               /\ row.version = drafts[d].version + 1
      <3>1. drafts[d].version \in Nat /\ drafts \in [DraftIds -> Row]
        BY DEF DraftInv, DraftTypeOK, Row
      <3>2. drafts'[d] = row /\ \A e \in DraftIds \ {d} : drafts'[e] = drafts[e]
        BY <2>2, <3>1
      <3>3. \A p \in published : p.draft \in DraftIds /\ p.version \in Nat
        BY DEF DraftInv, DraftTypeOK
      <3>4. \A p \in published : p.draft = d => p.version < row.version
        BY <2>2, <3>1, <3>3 DEF DraftInv, TableInv
      <3>a. \A e \in DraftIds : ~Exists(e)' => drafts'[e].owner = NoActor
        BY <2>2, <3>1, <3>2 DEF DraftInv, TableInv, Exists
      <3>5. \A e \in DraftIds : Exists(e)' =>
                [draft |-> e, version |-> drafts'[e].version, content |-> drafts'[e].content]
                    \in published'
        BY <2>2, <3>2 DEF DraftInv, TableInv, Exists
      <3>6. \A p \in published' : Exists(p.draft)' /\ p.version <= drafts'[p.draft].version
        <4> SUFFICES ASSUME NEW p \in published'
                     PROVE  drafts'[p.draft].version # 0 /\ p.version <= drafts'[p.draft].version
          BY DEF Exists
        <4>1. CASE p = new
          BY <1>1, <2>2, <3>1, <3>2, <4>1
        <4>2. CASE p \in published /\ p.draft = d
          BY <1>1, <2>2, <3>1, <3>2, <3>3, <3>4, <4>2
        <4>3. CASE p \in published /\ p.draft # d
          BY <3>2, <3>3, <4>3 DEF DraftInv, TableInv, Exists
        <4> QED
          BY <2>2, <4>1, <4>2, <4>3
      <3>7. VersionNamesContent'
        BY <1>1, <2>2, <3>3, <3>4 DEF DraftInv, TableInv, VersionNamesContent
      <3> QED
        BY <3>a, <3>5, <3>6, <3>7 DEF TableInv
    <2> QED
      BY <1>4, <2>1, <2>2
  <1>7. published \subseteq published' /\ \A e \in DraftIds : Exists(e) => Exists(e)'
    <2>1. drafts \in [DraftIds -> Row] /\ drafts[d].version \in Nat
      BY DEF DraftInv, DraftTypeOK, Row
    <2> QED
      BY <1>4, <2>1 DEF Exists
  <1>8. WorkspaceInv'
    BY <1>1, <1>7 DEF DraftInv, WorkspaceInv, Knows
  <1>9. WireInv'
    BY <1>1, <1>7 DEF DraftInv, WireInv, Knows, IsPut
  <1>10. WaitInv'
    <2>1. \A s \in wire : s.client \in Clients
      BY DEF DraftInv, DraftTypeOK
    <2>2. \A s \in wire' : s.late = 0 => answer'[s.client] = answer[s.client]
      BY <1>1, <1>3, <2>1 DEF DraftInv, WaitInv
    <2> QED
      BY <1>1, <2>2 DEF DraftInv, WaitInv, IsPut
  <1>11. AnswerInv'
    <2> SUFFICES ASSUME NEW c \in Clients
                 PROVE  LET b == answer'[c] IN
                        /\ b.result # "none" => c \in awaiting'
                        /\ b.result \in {"saved", "loaded"} =>
                              [draft |-> b.draft, version |-> b.version, content |-> b.content]
                                  \in published'
                        /\ b.result = "saved" => MarksOf(b.content) \subseteq workspace'[c].seen
                        /\ b.result = "stale" => workspace'[c].draft # 0
      BY DEF AnswerInv
    <2>1. CASE answer'[c] = answer[c]
      BY <1>1, <1>7, <2>1 DEF DraftInv, AnswerInv
    <2>2. CASE answer'[c] = a /\ c = r.client /\ r.late = 0
      <3>1. c \in awaiting
        BY <2>2 DEF DraftInv, WaitInv
      <3>2. result \in {"saved", "loaded"} => new \in published'
        BY <1>4 DEF DraftInv, TableInv
      <3>3. result = "saved" => MarksOf(row.content) \subseteq workspace[c].seen
        BY <2>2 DEF DraftInv, WaitInv, Served
      <3>4. result = "stale" => workspace[c].draft # 0
        BY <2>2 DEF DraftInv, WaitInv, Served
      <3> QED
        BY <1>1, <1>2, <2>2, <3>1, <3>2, <3>3, <3>4
    <2> QED
      BY <1>3, <2>1, <2>2
  <1> QED
    BY <1>5, <1>6, <1>8, <1>9, <1>10, <1>11 DEF DraftInv

\* The types of the answers.
Answers == [result : {"none", "saved", "loaded", "stale", "refused"},
            draft : 0..MaxDrafts, version : Nat, content : Content]

\* The empty answer is one of them and tells nothing.
LEMMA NoAnswerTold == NoAnswer \in Answers /\ NoAnswer.result = "none"
  BY DraftBoundsAssumption DEF NoAnswer, Answers, NoContent, Content

\* A client sends a request.
LEMMA SendsKeeps ==
    ASSUME DraftInv, NEW c \in Clients, NEW kind, NEW d, Sends(c, kind, d)
    PROVE  DraftInv'
  <1> DEFINE q == Request(c, kind, d)
  <1>1. /\ wire' = wire \cup {q} /\ awaiting' = awaiting \cup {c}
        /\ sent' = sent + 1 /\ sent < MaxRequests
        /\ UNCHANGED <<drafts, workspace, marks, timeouts, published>>
    BY DEF Sends, Send
  <1>2. /\ q.client = c /\ q.late = 0 /\ q.kind = kind /\ q.draft = d
        /\ q.expected = workspace[c].version /\ q.content = workspace[c].content
        /\ q.knew = workspace[c].seen
    BY DEF Request
  <1>3. /\ Sound(workspace[c])
        /\ workspace[c].draft # 0 => workspace[c].draft \in DraftIds
    BY WorkspacesAreSound, KnownDraftExists DEF Sound
  <1>4. /\ answer' \in [Clients -> Answers]
        /\ answer'[c].result = "none"
        /\ \A b \in Clients : b # c => answer'[b] = answer[b]
    BY NoAnswerTold DEF Sends, DraftInv, DraftTypeOK, Answers
  <1>5. DraftTypeOK'
    <2>1. q \in [client : Clients, late : 0..timeouts, kind : Kinds,
                 draft : 0..MaxDrafts, expected : Nat,
                 content : Content, knew : SUBSET Marks]
      BY <1>3 DEF Request, Sends, Sound, Workspaces, DraftInv, DraftTypeOK
    <2>2. sent' \in 0..MaxRequests
      BY <1>1, DraftBoundsAssumption DEF DraftInv, DraftTypeOK
    <2> QED
      BY <1>1, <1>4, <2>1, <2>2 DEF DraftInv, DraftTypeOK, Answers
  <1>6. TableInv'
    BY <1>1 DEF DraftInv, TableInv, VersionNamesContent, Exists
  <1>7. WorkspaceInv'
    BY <1>1 DEF DraftInv, WorkspaceInv, Knows
  <1>8. WireInv'
    <2>1. IsPut(q) => q.draft \in DraftIds /\ Knows(q.draft, q.expected, q.knew)
      BY <1>2, <1>3 DEF IsPut, Sends, Sound
    <2>2. q.kind = "get" => q.draft \in DraftIds /\ Exists(q.draft)
      BY <1>2 DEF Sends
    <2>3. MarksOf(q.content) \subseteq q.knew
      BY <1>2, <1>3 DEF Sound
    <2>4. \A r \in wire' :
              /\ MarksOf(r.content) \subseteq r.knew
              /\ IsPut(r) => r.draft \in DraftIds /\ Knows(r.draft, r.expected, r.knew)
              /\ r.kind = "get" => r.draft \in DraftIds /\ Exists(r.draft)
      BY <1>1, <2>1, <2>2, <2>3 DEF DraftInv, WireInv
    <2> QED
      BY <1>1, <2>4 DEF WireInv, IsPut, Knows, Exists
  <1>9. WaitInv'
    <2>1. \A r \in wire : r.client \in Clients /\ (r.late = 0 => r.client # c)
      BY DEF Sends, DraftInv, DraftTypeOK
    <2>2. IsPut(q) => workspace[c].draft # 0
      BY <1>2 DEF IsPut, Sends
    <2>3. \A r \in wire' : r.late = 0 =>
              /\ r.client \in awaiting'
              /\ answer'[r.client].result = "none"
              /\ r.knew = workspace'[r.client].seen
              /\ IsPut(r) => workspace'[r.client].draft # 0
      BY <1>1, <1>2, <1>4, <2>1, <2>2 DEF DraftInv, WaitInv
    <2>4. \A r, s \in wire' : r.late = 0 /\ s.late = 0 /\ r.client = s.client => r = s
      BY <1>1, <1>2, <2>1 DEF DraftInv, WaitInv
    <2> QED
      BY <2>3, <2>4 DEF WaitInv, IsPut
  <1>10. AnswerInv'
    BY <1>1, <1>4 DEF DraftInv, AnswerInv
  <1> QED
    BY <1>5, <1>6, <1>7, <1>8, <1>9, <1>10 DEF DraftInv

\* A client hears an answer.
LEMMA HearsKeeps ==
    ASSUME DraftInv, NEW c \in Clients, NEW w, Sound(w), Hears(c, w)
    PROVE  DraftInv'
  <1>1. /\ awaiting' = awaiting \ {c}
        /\ UNCHANGED <<drafts, wire, sent, marks, timeouts, published>>
        /\ workspace' = [workspace EXCEPT ![c] = w]
        /\ answer' = [answer EXCEPT ![c] = NoAnswer]
    BY DEF Hears
  <1>2. /\ workspace'[c] = w
        /\ \A b \in Clients : b # c => workspace'[b] = workspace[b]
    BY <1>1 DEF DraftInv, DraftTypeOK
  <1>3. /\ answer'[c] = NoAnswer
        /\ \A b \in Clients : b # c => answer'[b] = answer[b]
    BY <1>1 DEF DraftInv, DraftTypeOK
  <1>4. \A r \in wire : r.client \in Clients /\ (r.late = 0 => r.client # c)
    BY NothingUnderWay DEF Hears, DraftInv, DraftTypeOK
  <1>5. DraftTypeOK'
    <2>1. workspace' \in [Clients -> Workspaces]
      BY <1>1 DEF Sound, DraftInv, DraftTypeOK, Workspaces
    <2>2. \A b \in Clients : workspace'[b].draft = 0 <=> workspace'[b].version = 0
      BY <1>2 DEF Sound, DraftInv, DraftTypeOK
    <2>3. answer' \in [Clients -> Answers]
      BY <1>1, NoAnswerTold DEF DraftInv, DraftTypeOK, Answers
    <2> QED
      BY <1>1, <2>1, <2>2, <2>3 DEF DraftInv, DraftTypeOK, Workspaces, Answers
  <1>6. TableInv'
    BY <1>1 DEF DraftInv, TableInv, VersionNamesContent, Exists
  <1>7. WorkspaceInv'
    BY <1>1, <1>2 DEF DraftInv, WorkspaceInv, Knows, Sound
  <1>8. WireInv'
    BY <1>1 DEF DraftInv, WireInv, Knows, IsPut, Exists
  <1>9. WaitInv'
    BY <1>1, <1>2, <1>3, <1>4 DEF DraftInv, WaitInv, IsPut
  <1>10. AnswerInv'
    BY <1>1, <1>2, <1>3, NoAnswerTold DEF DraftInv, AnswerInv
  <1> QED
    BY <1>5, <1>6, <1>7, <1>8, <1>9, <1>10 DEF DraftInv

\* A client works on or starts afresh.
LEMMA WorksKeeps ==
    ASSUME DraftInv, NEW c \in Clients, NEW w, Sound(w), Works(c, w)
    PROVE  DraftInv'
  <1>1. /\ UNCHANGED <<drafts, wire, awaiting, answer, sent, timeouts, published>>
        /\ workspace' = [workspace EXCEPT ![c] = w]
        /\ marks' \in marks..MaxMarks
    BY DEF Works
  <1>2. /\ workspace'[c] = w
        /\ \A b \in Clients : b # c => workspace'[b] = workspace[b]
    BY <1>1 DEF DraftInv, DraftTypeOK
  <1>3. \A r \in wire : r.client \in Clients /\ (r.late = 0 => r.client # c)
    BY NothingUnderWay DEF Works, DraftInv, DraftTypeOK
  <1>4. answer[c].result = "none"
    BY IdleHasNoAnswer DEF Works
  <1>5. DraftTypeOK'
    <2>1. workspace' \in [Clients -> Workspaces]
      BY <1>1 DEF Sound, DraftInv, DraftTypeOK, Workspaces
    <2>2. \A b \in Clients : workspace'[b].draft = 0 <=> workspace'[b].version = 0
      BY <1>2 DEF Sound, DraftInv, DraftTypeOK
    <2>3. marks' \in 0..MaxMarks
      BY <1>1, DraftBoundsAssumption DEF DraftInv, DraftTypeOK
    <2> QED
      BY <1>1, <2>1, <2>2, <2>3 DEF DraftInv, DraftTypeOK, Workspaces
  <1>6. TableInv'
    BY <1>1 DEF DraftInv, TableInv, VersionNamesContent, Exists
  <1>7. WorkspaceInv'
    BY <1>1, <1>2 DEF DraftInv, WorkspaceInv, Knows, Sound
  <1>8. WireInv'
    BY <1>1 DEF DraftInv, WireInv, Knows, IsPut, Exists
  <1>9. WaitInv'
    BY <1>1, <1>2, <1>3 DEF DraftInv, WaitInv, IsPut
  <1>10. AnswerInv'
    BY <1>1, <1>2, <1>4 DEF DraftInv, AnswerInv
  <1> QED
    BY <1>5, <1>6, <1>7, <1>8, <1>9, <1>10 DEF DraftInv

\* Giving up changes nothing in a request but its stamp.
LEMMA GivenUpRequest ==
    ASSUME DraftInv, NEW r \in wire, NEW c
    PROVE  LET g == GivenUp(r, c) IN
           /\ g.client = r.client /\ g.kind = r.kind /\ g.draft = r.draft
           /\ g.expected = r.expected /\ g.content = r.content /\ g.knew = r.knew
           /\ g.late \in 0..(timeouts + 1)
           /\ g.late = 0 => g = r /\ r.client # c
           /\ g \in [client : Clients, late : 0..(timeouts + 1), kind : Kinds,
                     draft : 0..MaxDrafts, expected : Nat,
                     content : Content, knew : SUBSET Marks]
  <1>1. /\ r \in [client : Clients, late : 0..timeouts, kind : Kinds,
                  draft : 0..MaxDrafts, expected : Nat,
                  content : Content, knew : SUBSET Marks]
        /\ timeouts \in Nat
    BY DraftBoundsAssumption DEF DraftInv, DraftTypeOK
  <1>2. CASE r.client = c /\ r.late = 0
    BY <1>1, <1>2 DEF GivenUp
  <1>3. CASE ~(r.client = c /\ r.late = 0)
    BY <1>1, <1>3 DEF GivenUp
  <1> QED
    BY <1>2, <1>3

\* A client gives up.
LEMMA TimeoutKeeps ==
    ASSUME DraftInv, NEW c \in Clients, Timeout(c)
    PROVE  DraftInv'
  <1>1. /\ timeouts' = timeouts + 1 /\ timeouts < MaxTimeouts
        /\ awaiting' = awaiting \ {c}
        /\ answer' = [answer EXCEPT ![c] = NoAnswer]
        /\ wire' = {GivenUp(r, c) : r \in wire}
        /\ UNCHANGED <<drafts, workspace, sent, marks, published>>
    BY DEF Timeout
  <1>2. /\ answer'[c] = NoAnswer
        /\ \A b \in Clients : b # c => answer'[b] = answer[b]
    BY <1>1 DEF DraftInv, DraftTypeOK
  <1>3. DraftTypeOK'
    <2>1. wire' \subseteq [client : Clients, late : 0..timeouts', kind : Kinds,
                           draft : 0..MaxDrafts, expected : Nat,
                           content : Content, knew : SUBSET Marks]
      BY <1>1, GivenUpRequest
    <2>2. timeouts' \in 0..MaxTimeouts
      BY <1>1, DraftBoundsAssumption DEF DraftInv, DraftTypeOK
    <2>3. answer' \in [Clients -> Answers]
      BY <1>1, NoAnswerTold DEF DraftInv, DraftTypeOK, Answers
    <2> QED
      BY <1>1, <2>1, <2>2, <2>3 DEF DraftInv, DraftTypeOK, Answers
  <1>4. TableInv'
    BY <1>1 DEF DraftInv, TableInv, VersionNamesContent, Exists
  <1>5. WorkspaceInv'
    BY <1>1 DEF DraftInv, WorkspaceInv, Knows
  <1>6. WireInv'
    <2> SUFFICES ASSUME NEW g \in wire'
                 PROVE  /\ MarksOf(g.content) \subseteq g.knew
                        /\ IsPut(g) => g.draft \in DraftIds /\ Knows(g.draft, g.expected, g.knew)
                        /\ g.kind = "get" => g.draft \in DraftIds /\ Exists(g.draft)
      BY <1>1 DEF WireInv, IsPut, Knows, Exists
    <2>1. PICK r \in wire : g = GivenUp(r, c)
      BY <1>1
    <2>2. /\ g.kind = r.kind /\ g.draft = r.draft /\ g.expected = r.expected
          /\ g.content = r.content /\ g.knew = r.knew
      BY <2>1, GivenUpRequest
    <2> QED
      BY <2>2 DEF DraftInv, WireInv, IsPut
  <1>7. WaitInv'
    <2>1. \A g \in wire' : g.late = 0 => g \in wire /\ g.client # c /\ g.client \in Clients
      <3> SUFFICES ASSUME NEW g \in wire', g.late = 0
                   PROVE  g \in wire /\ g.client # c /\ g.client \in Clients
        OBVIOUS
      <3>1. PICK r \in wire : g = GivenUp(r, c)
        BY <1>1
      <3>2. g = r /\ r.client # c
        BY <3>1, GivenUpRequest
      <3> QED
        BY <3>2 DEF DraftInv, DraftTypeOK
    <2> QED
      BY <1>1, <1>2, <2>1 DEF DraftInv, WaitInv, IsPut
  <1>8. AnswerInv'
    BY <1>1, <1>2, NoAnswerTold DEF DraftInv, AnswerInv
  <1> QED
    BY <1>3, <1>4, <1>5, <1>6, <1>7, <1>8 DEF DraftInv

\* The empty table, the empty workspaces, nothing under way.
LEMMA DraftInvInitially == Init => DraftInv
  <1> SUFFICES ASSUME Init PROVE DraftInv
    OBVIOUS
  <1>1. NoContent \in Content
    BY DEF NoContent, Content
  <1>2. DraftTypeOK
    <2>1. drafts \in [DraftIds -> Row]
      BY <1>1 DEF Init, NoDraft, Row
    <2>2. workspace \in [Clients -> Workspaces]
      BY <1>1, DraftBoundsAssumption DEF Init, NoWorkspace, Workspaces
    <2>3. \A c \in Clients : workspace[c].draft = 0 /\ workspace[c].version = 0
      BY DEF Init, NoWorkspace
    <2>4. answer \in [Clients -> Answers]
      BY NoAnswerTold DEF Init
    <2> QED
      BY <2>1, <2>2, <2>3, <2>4, DraftBoundsAssumption
         DEF Init, DraftTypeOK, Workspaces, Answers
  <1>3. TableInv
    BY DEF Init, TableInv, VersionNamesContent, Exists, NoDraft
  <1>4. WorkspaceInv
    BY DEF Init, WorkspaceInv, NoWorkspace, NoContent, MarksOf
  <1>5. WireInv /\ WaitInv
    BY DEF Init, WireInv, WaitInv
  <1>6. AnswerInv
    BY NoAnswerTold DEF Init, AnswerInv
  <1> QED
    BY <1>2, <1>3, <1>4, <1>5, <1>6 DEF DraftInv

\* Every step keeps the invariant.
LEMMA DraftInvKept == DraftInv /\ [Next]_draftVars => DraftInv'
  <1> SUFFICES ASSUME DraftInv, [Next]_draftVars PROVE DraftInv'
    OBVIOUS
  <1>1. CASE Server
    BY <1>1, ServerServes, ServedKeeps
  <1>2. ASSUME NEW c \in Clients, Client(c) PROVE DraftInv'
    BY <1>2, ClientActs, SendsKeeps, HearsKeeps, WorksKeeps, TimeoutKeeps
  <1>3. CASE UNCHANGED draftVars
    BY <1>3 DEF draftVars, DraftInv, DraftTypeOK, TableInv, VersionNamesContent,
                WorkspaceInv, WireInv, WaitInv, AnswerInv, Knows, Exists, IsPut
  <1> QED
    BY <1>1, <1>2, <1>3 DEF Next

\* So it always holds.
LEMMA DraftInvAlways == Spec => []DraftInv
  BY DraftInvInitially, DraftInvKept, PTL DEF Spec

\* The table changes only when a create or a save is handled.
LEMMA OnlySavesWrite ==
    ASSUME Next, NEW d, drafts'[d] # drafts[d]
    PROVE  \E r \in wire : HandleCreate(r) \/ HandleUpdate(r)
  <1>1. ASSUME NEW c \in Clients, Client(c) PROVE FALSE
    BY <1>1 DEF Client, Create, Save, Edit, Change, Upload, Resume, Acknowledged,
                Restored, Reload, Failed, Timeout, Send
  <1>2. Server
    BY <1>1 DEF Next
  <1> QED
    BY <1>2 DEF Server, HandleGet, HandleStale, HandleRefused

-----------------------------------------------------------------------------
(* The theorems.                                                           *)

\* Rows, workspaces and messages are well-typed whatever clients do.
THEOREM DraftTypeCorrect == Spec => []DraftTypeOK
  BY DraftInvAlways, PTL DEF DraftInv

\* A version number names one content of a draft, for any number of clients
\* that save, repeat, give up and are handled late.
THEOREM VersionsNameContents == Spec => []VersionNamesContent
  <1>1. DraftInv => VersionNamesContent
    BY DEF DraftInv, TableInv
  <1> QED
    BY <1>1, DraftInvAlways, PTL

\* No lost update: a save takes away only what its author had seen, also the
\* saves of one section and those of a client that never reloaded.
THEOREM SavesSeeWhatTheyDiscard == Spec => NoBlindOverwrite
  <1> DEFINE A == \A d \in DraftIds :
          Exists(d) /\ drafts'[d] # drafts[d] =>
             \E r \in wire \ wire' :
                Discarded(drafts[d].content, drafts'[d].content) \subseteq r.knew
  <1>1. DraftInv /\ [Next]_draftVars => [A]_draftVars
    <2> SUFFICES ASSUME DraftInv, Next, NEW d \in DraftIds, Exists(d), drafts'[d] # drafts[d]
                 PROVE  \E r \in wire \ wire' :
                           Discarded(drafts[d].content, drafts'[d].content) \subseteq r.knew
      BY DEF draftVars
    <2>2. PICK r \in wire : HandleCreate(r) \/ HandleUpdate(r)
      BY OnlySavesWrite
    <2>3. drafts \in [DraftIds -> Row]
      BY DEF DraftInv, DraftTypeOK
    <2>4. ~HandleCreate(r)
      BY <2>3 DEF HandleCreate, Store
    <2>5. Fresh(r) /\ r.draft = d /\ r \in wire \ wire'
      BY <2>2, <2>3, <2>4 DEF HandleUpdate, Store, Handle
    <2>6. Knows(d, drafts[d].version, r.knew)
      BY <2>5 DEF Fresh, MaySave, DraftInv, WireInv
    <2>7. MarksOf(drafts[d].content) \subseteq r.knew
      BY <2>6, KnownContent
    <2> QED
      BY <2>5, <2>7 DEF Discarded, MarksOf
  <1> QED
    BY <1>1, DraftInvAlways, PTL DEF Spec, NoBlindOverwrite

\* A draft of an actor stays with the actor and is changed by nobody else.
THEOREM OwnersKeepTheirDrafts == Spec => OwnedDraftsArePrivate
  <1> DEFINE A == \A d \in DraftIds :
          drafts[d].owner # NoActor /\ drafts'[d] # drafts[d] =>
             /\ drafts'[d].owner = drafts[d].owner
             /\ \E r \in wire \ wire' : Actor[r.client] \in {NoActor, drafts[d].owner}
  <1>1. DraftInv /\ [Next]_draftVars => [A]_draftVars
    <2> SUFFICES ASSUME DraftInv, Next, NEW d \in DraftIds,
                        drafts[d].owner # NoActor, drafts'[d] # drafts[d]
                 PROVE  /\ drafts'[d].owner = drafts[d].owner
                        /\ \E r \in wire \ wire' : Actor[r.client] \in {NoActor, drafts[d].owner}
      BY DEF draftVars
    <2>1. PICK r \in wire : HandleCreate(r) \/ HandleUpdate(r)
      BY OnlySavesWrite
    <2>2. drafts \in [DraftIds -> Row]
      BY DEF DraftInv, DraftTypeOK
    <2>3. ~HandleCreate(r)
      BY <2>2 DEF HandleCreate, Store, DraftInv, TableInv
    <2>4. /\ Fresh(r) /\ r.draft = d /\ r \in wire \ wire'
          /\ drafts'[d] = Updated(r, drafts[d])
      BY <2>1, <2>2, <2>3 DEF HandleUpdate, Store, Handle
    <2>5. drafts'[d].owner = drafts[d].owner
      BY <2>4 DEF Updated, Owner
    <2>6. Actor[r.client] \in {NoActor, drafts[d].owner}
      BY <2>4 DEF Fresh, MaySave, MayAccess
    <2> QED
      BY <2>4, <2>5, <2>6
  <1> QED
    BY <1>1, DraftInvAlways, PTL DEF Spec, OwnedDraftsArePrivate
=============================================================================
