-------------------------- MODULE KnowledgeRuntime --------------------------
(***************************************************************************)
(* The knowledge runtime of Semantra,                                      *)
(* backend/app/services/metadata_knowledge_service.py: in-memory tables    *)
(* loaded from source files or from a persisted snapshot of them, which a  *)
(* stamp (the hash of the files' mtimes and sizes) declares current.       *)
(*                                                                         *)
(* Four parties act:                                                       *)
(*   - the event loop, one request at a time: reload, reseed, a change of  *)
(*     the base registry, glossary authoring, a change of the active       *)
(*     overlay.  A request is synchronous, so its steps never interleave   *)
(*     with another request, but they do with everything below;            *)
(*   - operators, who edit the source files on disk;                       *)
(*   - mapping-job threads, which match columns against the tables and     *)
(*     memoise the result, without a lock;                                 *)
(*   - the operating system: a storage or parse error ends a request at    *)
(*     any step, and the process may crash and come up again.              *)
(*                                                                         *)
(* The content of a file is its version: every edit makes a new one, so    *)
(* equal versions are equal content and the hash of the files is the pair  *)
(* of their versions.  (An edit that keeps mtime and size escapes the real *)
(* hash.)  All sources but the canonical glossary are one file here, the   *)
(* registry; version 0 is the registry missing, which _load treats as      *)
(* nothing to load.                                                        *)
(***************************************************************************)
EXTENDS Naturals, FiniteSets

CONSTANTS
    Overlays,       \* overlay versions an admin may activate
    NoOverlay,
    Threads,        \* mapping-job threads
    MaxEdits,       \* bound: changes of a source file, by anyone
    MaxFaults,      \* bound: requests and starts that raise
    MaxRestarts     \* bound: crashes of the process

ASSUME KnowledgeBoundsAssumption ==
    /\ MaxEdits \in Nat /\ MaxFaults \in Nat /\ MaxRestarts \in Nat
    /\ NoOverlay \notin Overlays

VARIABLES
    files,          \* the version of the glossary and of the registry on disk
    rows,           \* the persisted snapshot, by the versions it came from
    stamp,          \* knowledge_seed_meta.source_hash, or NoStamp
    activeOverlay,  \* what get_active_knowledge_overlay_version returns
    tables,         \* the in-memory tables, by the versions they came from
    shownOverlay,   \* the overlay applied to them
    runtimeSource,  \* _last_runtime_source: how the tables were built
    step,           \* where the event loop is in a request, "idle" outside
    mode,           \* how the request loads: which path, and is it the start
    hash,           \* the local holding a computed source hash
    cache,          \* one entry of the match cache, NoMatch when absent
    matching,       \* the match each thread is computing, NoMatch when none
    edits, faults, restarts,
    stampedBy,      \* history: the mode of the request that wrote the stamp
    failed,         \* history: the last request raised
    quiet           \* history: no operator's edit while the last request ran

knowledgeVars ==
    <<files, rows, stamp, activeOverlay, tables, shownOverlay, runtimeSource, step,
      mode, hash, cache, matching, edits, faults, restarts, stampedBy, failed, quiet>>

diskVars == <<files, rows, stamp, activeOverlay>>
boundVars == <<edits, faults, restarts>>
-----------------------------------------------------------------------------
(* Contents.                                                               *)

Version == 0..(MaxEdits + 1)
Files == [glossary : Version, registry : Version]
NoStamp == [glossary |-> 0, registry |-> 0]

\* Canonical aliases and field contexts are derived while parsing the registry
\* against a loaded glossary; Nothing is what an unread source contributes.
Nothing == [glossary |-> 0, registry |-> 0]
Derived(g, r) == IF r = 0 THEN Nothing ELSE [glossary |-> g, registry |-> r]

\* The rows hold concepts, aliases and contexts.  Memory adds the index from
\* field names to contexts: the parsers enter some contexts of the knowledge
\* concepts into it, the loader of the rows enters all of them (indexed).
Rows == [knowledge : Version, glossary : Version, aliases : Files, contexts : Files]
Tables == [knowledge : Version, glossary : Version, aliases : Files, contexts : Files,
           indexed : BOOLEAN]

\* What a save keeps of the tables, and what a load makes of the rows.
Saved(t) == [knowledge |-> t.knowledge, glossary |-> t.glossary,
             aliases |-> t.aliases, contexts |-> t.contexts]
Loaded(r) == [knowledge |-> r.knowledge, glossary |-> r.glossary,
              aliases |-> r.aliases, contexts |-> r.contexts,
              indexed |-> r.knowledge # 0]

\* What parsing every file yields.
Parsed(f) ==
    [knowledge |-> f.registry, glossary |-> f.glossary,
     aliases |-> Derived(f.glossary, f.registry),
     contexts |-> Derived(f.glossary, f.registry),
     indexed |-> FALSE]

Empty == Parsed([glossary |-> 0, registry |-> 0])

Contents == [tables : Tables, overlay : Overlays \cup {NoOverlay}]
Served == [tables |-> tables, overlay |-> shownOverlay]

\* A match in progress or memoised: the contents it has read, and whether the
\* event loop reloaded the tables meanwhile.
NoMatch == [seen |-> {}, overlapped |-> FALSE]
-----------------------------------------------------------------------------
(* The event loop.                                                         *)

Steps == {"idle", "check_snapshot", "clear", "compare_hash", "parse_glossary",
          "parse_registry", "load_persisted", "compute_hash", "save_rows",
          "save_stamp", "apply_overlay"}
Modes == {"start", "refresh", "reseed", "sync"}
Sources == {"source_files", "sqlite_cache", "canonical_authoring_sync"}

\* Every step of the loop overlaps the matches in progress.
Overlapped ==
    [t \in Threads |-> IF matching[t] = NoMatch THEN NoMatch
                       ELSE [matching[t] EXCEPT !.overlapped = TRUE]]

LoopStep(at, next) ==
    /\ step = at
    /\ step' = next
    /\ matching' = Overlapped

Request(first, m) ==
    /\ step = "idle"
    /\ step' = first
    /\ mode' = m
    /\ quiet' = TRUE
    /\ UNCHANGED <<rows, stamp, tables, shownOverlay, runtimeSource, hash, cache,
                   matching, faults, restarts, stampedBy, failed>>

\* The version a write makes.
Fresh == edits' + 1
Edit == edits < MaxEdits /\ edits' = edits + 1

Reload == Request("clear", "refresh") /\ UNCHANGED <<files, activeOverlay, edits>>
Reseed == Request("clear", "reseed") /\ UNCHANGED <<files, activeOverlay, edits>>

\* A base record update or a registry import: write the file, then refresh.
ChangeRegistry ==
    /\ Edit
    /\ files' = [files EXCEPT !.registry = Fresh]
    /\ Request("clear", "refresh")
    /\ UNCHANGED activeOverlay

\* A glossary import or a promotion into the glossary: write the file, then
\* _refresh_after_canonical_authoring_change.
AuthorGlossary ==
    /\ Edit
    /\ files' = [files EXCEPT !.glossary = Fresh]
    /\ Request("check_snapshot", "sync")
    /\ UNCHANGED activeOverlay

\* Activate, deactivate, archive, roll back or approve into an overlay: the
\* table changes (KnowledgeOverlays has the details), then refresh.
ChangeOverlay ==
    /\ activeOverlay' \in Overlays \cup {NoOverlay}
    /\ Request("clear", "refresh")
    /\ UNCHANGED <<files, edits>>

\* The authoring path needs a snapshot to build on, or it is a refresh.
CheckSnapshot ==
    /\ LoopStep("check_snapshot", "clear")
    /\ mode' = IF stamp = NoStamp \/ rows.knowledge = 0 THEN "refresh" ELSE mode
    /\ UNCHANGED <<diskVars, tables, shownOverlay, runtimeSource, hash, cache, boundVars,
                   stampedBy, failed, quiet>>

AfterClear ==
    [start |-> "compare_hash", refresh |-> "compare_hash",
     reseed |-> "parse_glossary", sync |-> "load_persisted"][mode]

\* Broken clears: one forgets the match cache, one the overlay.
ClearKeepingMatches ==
    /\ LoopStep("clear", AfterClear)
    /\ tables' = Empty
    /\ shownOverlay' = NoOverlay
    /\ UNCHANGED <<diskVars, runtimeSource, mode, hash, cache, boundVars, stampedBy,
                   failed, quiet>>

ClearKeepingOverlay ==
    /\ LoopStep("clear", AfterClear)
    /\ tables' = Empty
    /\ cache' = NoMatch
    /\ UNCHANGED <<diskVars, shownOverlay, runtimeSource, mode, hash, boundVars,
                   stampedBy, failed, quiet>>

\* _clear_runtime_state, before anything is known to load.
Clear ==
    /\ LoopStep("clear", AfterClear)
    /\ tables' = Empty
    /\ shownOverlay' = NoOverlay
    /\ cache' = NoMatch
    /\ UNCHANGED <<diskVars, runtimeSource, mode, hash, boundVars, stampedBy, failed, quiet>>

\* refresh hashes the files before it reads them; if the stamp agrees it
\* loads the snapshot, otherwise it parses.
CompareHash ==
    /\ hash' = files
    /\ \/ /\ stamp = files
          /\ LoopStep("compare_hash", "apply_overlay")
          /\ tables' = Loaded(rows)
          /\ runtimeSource' = "sqlite_cache"
       \/ /\ stamp # files
          /\ LoopStep("compare_hash", "parse_glossary")
          /\ UNCHANGED <<tables, runtimeSource>>
    /\ UNCHANGED <<diskVars, shownOverlay, mode, cache, boundVars, stampedBy,
                   failed, quiet>>

ParseGlossary ==
    /\ LoopStep("parse_glossary", "parse_registry")
    /\ tables' = [tables EXCEPT !.glossary = files.glossary]
    /\ UNCHANGED <<diskVars, shownOverlay, runtimeSource, mode, hash, cache, boundVars,
                   stampedBy, failed, quiet>>

\* A broken refresh that hashes the files again after reading them.
ParseRegistryThenHash ==
    /\ LoopStep("parse_registry", "compute_hash")
    /\ tables' = Parsed([glossary |-> tables.glossary, registry |-> files.registry])
    /\ UNCHANGED <<diskVars, shownOverlay, runtimeSource, mode, hash, cache, boundVars,
                   stampedBy, failed, quiet>>

\* _load.  reseed_from_files has yet to hash the files.
ParseRegistry ==
    /\ LoopStep("parse_registry",
                IF mode = "reseed" THEN "compute_hash" ELSE "save_rows")
    /\ tables' = Parsed([glossary |-> tables.glossary, registry |-> files.registry])
    /\ UNCHANGED <<diskVars, shownOverlay, runtimeSource, mode, hash, cache, boundVars,
                   stampedBy, failed, quiet>>

\* The authoring path: knowledge and field contexts from the snapshot, the
\* glossary from its file; the aliases the registry derived are not rebuilt.
LoadPersisted ==
    /\ LoopStep("load_persisted", "compute_hash")
    /\ tables' = [Loaded(rows) EXCEPT !.glossary = files.glossary, !.aliases = Nothing]
    /\ UNCHANGED <<diskVars, shownOverlay, runtimeSource, mode, hash, cache, boundVars,
                   stampedBy, failed, quiet>>

\* The hash of ALL files, as they are now.
ComputeHash ==
    /\ LoopStep("compute_hash", "save_rows")
    /\ hash' = files
    /\ UNCHANGED <<diskVars, tables, shownOverlay, runtimeSource, mode, cache, boundVars,
                   stampedBy, failed, quiet>>

\* A broken authoring sync that replaces the concepts and not their aliases.
SaveRowsKeepingAliases ==
    /\ LoopStep("save_rows", "save_stamp")
    /\ rows' = IF mode = "sync"
               THEN [rows EXCEPT !.glossary = tables.glossary]
               ELSE Saved(tables)
    /\ UNCHANGED <<files, stamp, activeOverlay, tables, shownOverlay, runtimeSource, mode,
                   hash, cache, boundVars, stampedBy, failed, quiet>>

\* seed_knowledge_concepts replaces every row in one transaction,
\* sync_canonical_runtime the canonical ones.
SaveRows ==
    /\ LoopStep("save_rows", "save_stamp")
    /\ rows' = IF mode = "sync"
               THEN [Saved(tables) EXCEPT !.knowledge = rows.knowledge]
               ELSE Saved(tables)
    /\ UNCHANGED <<files, stamp, activeOverlay, tables, shownOverlay, runtimeSource, mode,
                   hash, cache, boundVars, stampedBy, failed, quiet>>

\* save_knowledge_seed_meta, a transaction of its own; the load is done.
SaveStamp ==
    /\ LoopStep("save_stamp", "apply_overlay")
    /\ stamp' = hash
    /\ stampedBy' = mode
    /\ runtimeSource' = IF mode = "sync" THEN "canonical_authoring_sync" ELSE "source_files"
    /\ UNCHANGED <<files, rows, activeOverlay, tables, shownOverlay, mode, hash,
                   cache, boundVars, failed, quiet>>

\* _apply_active_overlay and the bridge: without an active overlay the first
\* returns early.  The request is over.
ApplyOverlay ==
    /\ LoopStep("apply_overlay", "idle")
    /\ shownOverlay' = IF activeOverlay = NoOverlay THEN shownOverlay ELSE activeOverlay
    /\ mode' = "refresh"
    /\ failed' = FALSE
    /\ UNCHANGED <<diskVars, tables, runtimeSource, hash, cache, boundVars, stampedBy, quiet>>

\* A storage call or a parser raises: the request ends where it is.  In the
\* constructor that ends the process too, and the start is tried again.
Raise ==
    /\ step # "idle"
    /\ faults < MaxFaults
    /\ faults' = faults + 1
    /\ failed' = TRUE
    /\ IF mode = "start"
       THEN step' = "clear" /\ tables' = Empty /\ shownOverlay' = NoOverlay
            /\ runtimeSource' = "source_files" /\ cache' = NoMatch /\ matching' = [t \in Threads |-> NoMatch]
            /\ UNCHANGED mode
       ELSE step' = "idle" /\ mode' = "refresh"
            /\ UNCHANGED <<tables, shownOverlay, runtimeSource, cache, matching>>
    /\ UNCHANGED <<diskVars, hash, edits, restarts, stampedBy, quiet>>
-----------------------------------------------------------------------------
(* The other parties.                                                      *)

\* An operator edits a source file, or supplies a missing registry.
EditFile ==
    /\ Edit
    /\ files' \in {[files EXCEPT !.glossary = Fresh], [files EXCEPT !.registry = Fresh]}
    /\ quiet' = (quiet /\ step = "idle")
    /\ UNCHANGED <<rows, stamp, activeOverlay, tables, shownOverlay, runtimeSource, step,
                   mode, hash, cache, matching, faults, restarts, stampedBy, failed>>

\* A crash: what was in memory is gone; the constructor refreshes.
Restart ==
    /\ restarts < MaxRestarts
    /\ restarts' = restarts + 1
    /\ tables' = Empty
    /\ shownOverlay' = NoOverlay
    /\ runtimeSource' = "source_files"
    /\ cache' = NoMatch
    /\ matching' = [t \in Threads |-> NoMatch]
    /\ step' = "clear"
    /\ mode' = "start"
    /\ failed' = FALSE
    /\ quiet' = TRUE
    /\ UNCHANGED <<diskVars, hash, edits, faults, stampedBy>>

\* match_concepts of a column that is not memoised reads the tables one after
\* the other; two reads stand for them.
ReadTables(t) ==
    /\ mode # "start"
    /\ matching[t] = NoMatch => cache = NoMatch
    /\ Cardinality(matching[t].seen) < 2
    /\ matching' = [matching EXCEPT
                       ![t] = [seen |-> @.seen \cup {Served},
                               overlapped |-> @.overlapped \/ step # "idle"]]
    /\ UNCHANGED <<diskVars, tables, shownOverlay, runtimeSource, step, mode, hash, cache,
                   boundVars, stampedBy, failed, quiet>>

\* ... and memoises what it found.
StoreMatch(t) ==
    /\ matching[t] # NoMatch
    /\ cache' = matching[t]
    /\ matching' = [matching EXCEPT ![t] = NoMatch]
    /\ UNCHANGED <<diskVars, tables, shownOverlay, runtimeSource, step, mode, hash, boundVars,
                   stampedBy, failed, quiet>>

\* A dictionary resized during an iteration raises; the job fails.
AbandonMatch(t) ==
    /\ matching[t].overlapped
    /\ matching' = [matching EXCEPT ![t] = NoMatch]
    /\ UNCHANGED <<diskVars, tables, shownOverlay, runtimeSource, step, mode, hash, cache,
                   boundVars, stampedBy, failed, quiet>>
-----------------------------------------------------------------------------
\* A fresh deployment: files, an empty database, the process starting.
Init ==
    /\ files \in [glossary : {1}, registry : {0, 1}]
    /\ rows = Saved(Empty)
    /\ stamp = NoStamp
    /\ activeOverlay = NoOverlay
    /\ tables = Empty
    /\ shownOverlay = NoOverlay
    /\ runtimeSource = "source_files"
    /\ step = "clear"
    /\ mode = "start"
    /\ hash = NoStamp
    /\ cache = NoMatch
    /\ matching = [t \in Threads |-> NoMatch]
    /\ edits = 0 /\ faults = 0 /\ restarts = 0
    /\ stampedBy = "start"
    /\ failed = FALSE
    /\ quiet = TRUE

Requests == Reload \/ Reseed \/ ChangeRegistry \/ AuthorGlossary \/ ChangeOverlay

Loading ==
    \/ CheckSnapshot \/ Clear \/ CompareHash \/ ParseGlossary \/ ParseRegistry
    \/ LoadPersisted \/ ComputeHash \/ SaveRows \/ SaveStamp \/ ApplyOverlay

Next ==
    \/ Requests
    \/ Loading
    \/ Raise \/ EditFile \/ Restart
    \/ \E t \in Threads : ReadTables(t) \/ StoreMatch(t) \/ AbandonMatch(t)

Spec == Init /\ [][Next]_knowledgeVars
-----------------------------------------------------------------------------
(* Properties.                                                             *)

\* Snapshot and tables come from versions of the files, the stamp from a hash
\* of them, and the event loop is at a step of one of the four load paths.
KnowledgeTypeOK ==
    /\ files \in Files /\ stamp \in Files /\ hash \in Files
    /\ rows \in Rows /\ tables \in Tables /\ runtimeSource \in Sources
    /\ activeOverlay \in Overlays \cup {NoOverlay}
    /\ shownOverlay \in Overlays \cup {NoOverlay}
    /\ step \in Steps /\ mode \in Modes /\ stampedBy \in Modes
    /\ cache \in [seen : SUBSET Contents, overlapped : BOOLEAN]
    /\ matching \in [Threads -> [seen : SUBSET Contents, overlapped : BOOLEAN]]
    /\ edits \in 0..MaxEdits /\ faults \in 0..MaxFaults
    /\ restarts \in 0..MaxRestarts
    /\ failed \in BOOLEAN /\ quiet \in BOOLEAN

\* A stamp written by refresh never hides a change: while it agrees with the
\* files, the snapshot is what parsing them yields, even when files change
\* during the parse or the request dies between the rows and the stamp.  This
\* is why refresh hashes first and saves the stamp last.
RefreshStampHonest ==
    (stamp = files /\ stampedBy \in {"start", "refresh"}) =>
        rows = Saved(Parsed(files))

\* Unless the last request raised, memory and snapshot come from the same
\* versions, and a process that did not parse the files itself matches as one
\* that restarts on the snapshot does.  A process that parsed them does not:
\* the loader of the rows indexes contexts that the parsers leave out, so its
\* restart with a current stamp does change matches.
ServesSnapshot ==
    (step = "idle" /\ ~failed) =>
        /\ Saved(tables) = rows
        /\ runtimeSource # "source_files" => tables = Loaded(rows)

\* Unless the last request raised, the overlay applied in memory is the one
\* the overlay table calls active.
ActiveOverlayApplied == (step = "idle" /\ ~failed) => shownOverlay = activeOverlay

\* The match cache has no lock.  A memoised match that no reload overlapped
\* was computed from the tables served now, whatever was reloaded since.
OnlyOverlappedMatchesStale ==
    (step = "idle" /\ cache # NoMatch /\ ~cache.overlapped) => cache.seen = {Served}

\* Reseed is the way out of every bad snapshot: if no file changes meanwhile,
\* it ends with rows, tables and stamp that come from the files on disk.
ReseedRebuilds ==
    [][(mode = "reseed" /\ quiet /\ step = "apply_overlay" /\ step' = "idle" /\ ~failed')
       => /\ rows' = Saved(Parsed(files'))
          /\ tables' = Parsed(files')
          /\ stamp' = files']_knowledgeVars

\* What docs/patterns/workday_datahub_mapping.md says of the stamp, "If any
\* source file changes, hash mismatch triggers full reseed": a registry that
\* changed since it was parsed into the snapshot is never declared current,
\* here even without an edit that races with the request.
DriftNoticed ==
    (step = "idle" /\ quiet /\ rows.knowledge # files.registry) => stamp # files
=============================================================================
