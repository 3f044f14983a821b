----------------------- MODULE KnowledgeRuntimeProofs -----------------------
(***************************************************************************)
(* Theorems about KnowledgeRuntime, for any overlays and threads and any   *)
(* number of edits, faults and restarts.                                   *)
(***************************************************************************)
EXTENDS KnowledgeRuntime, TLAPS

-----------------------------------------------------------------------------
(* The inductive invariant, by load path.                                  *)

\* No recorded hash is ahead of the files: an edit makes it obsolete for good.
HashesBehind ==
    /\ files.glossary <= edits + 1 /\ files.registry <= edits + 1
    /\ stamp.glossary <= edits + 1 /\ stamp.registry <= edits + 1
    /\ hash.glossary <= edits + 1 /\ hash.registry <= edits + 1

\* refresh: if no file changed since it took the hash, it has parsed the files
\* the hash stands for; meanwhile the old stamp agrees with nothing.
RefreshPath ==
    mode \in {"start", "refresh"} =>
        /\ step \notin {"check_snapshot", "load_persisted", "compute_hash"}
        /\ step \in {"parse_glossary", "parse_registry", "save_rows", "save_stamp"} =>
              stamp # files
        /\ step = "parse_registry" /\ hash = files => tables.glossary = files.glossary
        /\ step = "save_rows" /\ hash = files => tables = Parsed(files)
        /\ step = "save_stamp" /\ hash = files => rows = Saved(Parsed(files))

\* reseed_from_files: the same without an operator's edit, or under a stamp
\* that no edit has made obsolete.
ReseedPath ==
    mode = "reseed" =>
        /\ step \notin {"check_snapshot", "compare_hash", "load_persisted"}
        /\ step = "parse_registry" /\ (quiet \/ stamp = files) =>
              tables.glossary = files.glossary
        /\ step \in {"compute_hash", "save_rows"} /\ (quiet \/ stamp = files) =>
              tables = Parsed(files)
        /\ step \in {"save_rows", "save_stamp"} /\ quiet => hash = files
        /\ step \in {"save_stamp", "apply_overlay"} /\ quiet =>
              rows = Saved(Parsed(files)) /\ tables = Parsed(files)
        /\ step = "apply_overlay" /\ quiet => stamp = files

\* The authoring sync: its own write made the stamp obsolete, and the
\* knowledge concepts in memory are those of the snapshot, all indexed.
SyncPath ==
    mode = "sync" =>
        /\ step \in {"check_snapshot", "clear", "load_persisted", "compute_hash",
                     "save_rows", "save_stamp", "apply_overlay"}
        /\ step # "apply_overlay" => stamp # files
        /\ step \in {"compute_hash", "save_rows"} => tables.knowledge = rows.knowledge
        /\ step \in {"compute_hash", "save_rows", "save_stamp"} =>
              tables = Loaded(Saved(tables))

\* From saving the rows on, memory and snapshot agree, up to the index of a
\* process that parsed the files; from the clear on, no overlay is applied until
\* the last step.
Settling ==
    /\ step = "idle" => mode = "refresh"
    /\ step \in {"save_stamp", "apply_overlay"} => Saved(tables) = rows
    /\ step = "apply_overlay" /\ runtimeSource # "source_files" => tables = Loaded(rows)
    /\ step \notin {"idle", "check_snapshot", "clear"} => shownOverlay = NoOverlay

KnowledgeInv ==
    /\ KnowledgeTypeOK /\ HashesBehind
    /\ RefreshPath /\ ReseedPath /\ SyncPath /\ Settling
    /\ RefreshStampHonest /\ ServesSnapshot /\ ActiveOverlayApplied

-----------------------------------------------------------------------------
(* Lemmas.                                                                 *)

\* Contents built from versions are contents.
LEMMA ContentTypes ==
    /\ NoStamp \in Files
    /\ Empty \in Tables
    /\ NoMatch \in [seen : SUBSET Contents, overlapped : BOOLEAN]
    /\ \A f \in Files : Parsed(f) \in Tables
    /\ \A t \in Tables : Saved(t) \in Rows
    /\ \A r \in Rows : Loaded(r) \in Tables
  <1>1. 0 \in Version
    BY KnowledgeBoundsAssumption DEF Version
  <1>2. NoStamp \in Files /\ Nothing \in Files
    BY <1>1 DEF NoStamp, Nothing, Files
  <1>3. ASSUME NEW f \in Files PROVE Parsed(f) \in Tables
    <2>1. f.glossary \in Version /\ f.registry \in Version
      BY DEF Files
    <2>2. Derived(f.glossary, f.registry) \in Files
      BY <1>2, <2>1 DEF Derived, Files
    <2> QED
      BY <2>1, <2>2 DEF Parsed, Tables
  <1>4. Empty \in Tables
    BY <1>2, <1>3 DEF Empty, NoStamp
  <1>5. NoMatch \in [seen : SUBSET Contents, overlapped : BOOLEAN]
    BY DEF NoMatch
  <1>6. ASSUME NEW t \in Tables PROVE Saved(t) \in Rows
    BY DEF Saved, Rows, Tables
  <1>7. ASSUME NEW r \in Rows PROVE Loaded(r) \in Tables
    BY DEF Loaded, Rows, Tables
  <1> QED
    BY <1>2, <1>3, <1>4, <1>5, <1>6, <1>7

\* A load makes of the rows tables that a save turns into the rows again.
LEMMA LoadThenSave ==
    ASSUME NEW r \in Rows
    PROVE  Saved(Loaded(r)) = r
  BY DEF Saved, Loaded, Rows

\* Marking matches as overlapped keeps them matches.
LEMMA OverlappedType ==
    ASSUME KnowledgeTypeOK
    PROVE  Overlapped \in [Threads -> [seen : SUBSET Contents, overlapped : BOOLEAN]]
  BY ContentTypes DEF KnowledgeTypeOK, Overlapped

\* An edit makes a version within the bound that no recorded hash has.
LEMMA EditIsFresh ==
    ASSUME KnowledgeTypeOK, HashesBehind, Edit,
           \/ files' = [files EXCEPT !.glossary = Fresh]
           \/ files' = [files EXCEPT !.registry = Fresh],
           UNCHANGED <<stamp, hash>>
    PROVE  /\ files' \in Files
           /\ edits' \in 0..MaxEdits
           /\ HashesBehind'
           /\ stamp' # files' /\ hash' # files'
  <1> USE KnowledgeBoundsAssumption
  <1>1. Fresh \in Version /\ edits' \in 0..MaxEdits /\ Fresh = edits + 2 /\ edits \in Nat
    BY DEF Edit, Fresh, Version, KnowledgeTypeOK
  <1>2. /\ files \in Files /\ stamp \in Files /\ hash \in Files
        /\ files.glossary \in Nat /\ files.registry \in Nat
        /\ stamp.glossary \in Nat /\ stamp.registry \in Nat
        /\ hash.glossary \in Nat /\ hash.registry \in Nat
    BY DEF KnowledgeTypeOK, Files, Version
  <1>3. files' \in Files
    BY <1>1, <1>2 DEF Files
  <1>4. /\ files'.glossary \in {files.glossary, Fresh}
        /\ files'.registry \in {files.registry, Fresh}
        /\ files'.glossary = Fresh \/ files'.registry = Fresh
    BY <1>2 DEF Files
  <1>5. HashesBehind'
    BY <1>1, <1>2, <1>4 DEF HashesBehind, Edit
  <1>6. stamp' # files' /\ hash' # files'
    BY <1>1, <1>2, <1>4 DEF HashesBehind
  <1> QED
    BY <1>1, <1>3, <1>5, <1>6

-----------------------------------------------------------------------------
(* Type correctness and the versions.                                      *)

\* Every step keeps the types, and no hash gets ahead of the files.
LEMMA TypeStep ==
    ASSUME KnowledgeTypeOK, HashesBehind, [Next]_knowledgeVars
    PROVE  KnowledgeTypeOK' /\ HashesBehind'
  <1> USE KnowledgeBoundsAssumption, ContentTypes, OverlappedType
  <1> USE DEF diskVars, boundVars, Steps, Modes, Sources
  <1>1. ASSUME Reload \/ Reseed PROVE KnowledgeTypeOK' /\ HashesBehind'
    BY <1>1 DEF Reload, Reseed, Request, KnowledgeTypeOK, HashesBehind
  <1>2. ASSUME ChangeRegistry \/ AuthorGlossary PROVE KnowledgeTypeOK' /\ HashesBehind'
    <2>1. files' \in Files /\ edits' \in 0..MaxEdits /\ HashesBehind'
      BY <1>2, EditIsFresh DEF ChangeRegistry, AuthorGlossary, Request
    <2> QED
      BY <1>2, <2>1 DEF ChangeRegistry, AuthorGlossary, Request, KnowledgeTypeOK
  <1>3. ASSUME ChangeOverlay PROVE KnowledgeTypeOK' /\ HashesBehind'
    BY <1>3 DEF ChangeOverlay, Request, KnowledgeTypeOK, HashesBehind
  <1>4. ASSUME CheckSnapshot PROVE KnowledgeTypeOK' /\ HashesBehind'
    BY <1>4 DEF CheckSnapshot, LoopStep, KnowledgeTypeOK, HashesBehind
  <1>5. ASSUME Clear PROVE KnowledgeTypeOK' /\ HashesBehind'
    BY <1>5 DEF Clear, LoopStep, AfterClear, KnowledgeTypeOK, HashesBehind
  <1>6. ASSUME CompareHash PROVE KnowledgeTypeOK' /\ HashesBehind'
    <2>1. tables' \in Tables
      BY <1>6 DEF CompareHash, KnowledgeTypeOK
    <2> QED
      BY <1>6, <2>1 DEF CompareHash, LoopStep, KnowledgeTypeOK, HashesBehind
  <1>7. ASSUME ParseGlossary PROVE KnowledgeTypeOK' /\ HashesBehind'
    <2>1. tables' \in Tables
      BY <1>7 DEF ParseGlossary, KnowledgeTypeOK, Tables, Files
    <2> QED
      BY <1>7, <2>1 DEF ParseGlossary, LoopStep, KnowledgeTypeOK, HashesBehind
  <1>8. ASSUME ParseRegistry PROVE KnowledgeTypeOK' /\ HashesBehind'
    <2>1. [glossary |-> tables.glossary, registry |-> files.registry] \in Files
      BY DEF KnowledgeTypeOK, Tables, Files
    <2>2. tables' \in Tables
      BY <1>8, <2>1 DEF ParseRegistry
    <2> QED
      BY <1>8, <2>2 DEF ParseRegistry, LoopStep, KnowledgeTypeOK, HashesBehind
  <1>9. ASSUME LoadPersisted PROVE KnowledgeTypeOK' /\ HashesBehind'
    <2>1. tables' \in Tables
      <3>1. Loaded(rows) \in Tables /\ files.glossary \in Version /\ Nothing \in Files
        BY DEF KnowledgeTypeOK, Files, NoStamp, Nothing
      <3> QED
        BY <1>9, <3>1 DEF LoadPersisted, Tables
    <2> QED
      BY <1>9, <2>1 DEF LoadPersisted, LoopStep, KnowledgeTypeOK, HashesBehind
  <1>10. ASSUME ComputeHash PROVE KnowledgeTypeOK' /\ HashesBehind'
    BY <1>10 DEF ComputeHash, LoopStep, KnowledgeTypeOK, HashesBehind
  <1>11. ASSUME SaveRows PROVE KnowledgeTypeOK' /\ HashesBehind'
    <2>1. rows' \in Rows
      <3>1. Saved(tables) \in Rows /\ rows \in Rows
        BY DEF KnowledgeTypeOK
      <3> QED
        BY <1>11, <3>1 DEF SaveRows, Rows
    <2> QED
      BY <1>11, <2>1 DEF SaveRows, LoopStep, KnowledgeTypeOK, HashesBehind
  <1>12. ASSUME SaveStamp PROVE KnowledgeTypeOK' /\ HashesBehind'
    BY <1>12 DEF SaveStamp, LoopStep, KnowledgeTypeOK, HashesBehind
  <1>13. ASSUME ApplyOverlay PROVE KnowledgeTypeOK' /\ HashesBehind'
    BY <1>13 DEF ApplyOverlay, LoopStep, KnowledgeTypeOK, HashesBehind
  <1>14. ASSUME Raise PROVE KnowledgeTypeOK' /\ HashesBehind'
    <2>1. CASE mode = "start"
      <3>1. matching' \in [Threads -> [seen : SUBSET Contents, overlapped : BOOLEAN]]
        BY <1>14, <2>1 DEF Raise
      <3>2. HashesBehind'
        BY <1>14, <2>1 DEF Raise, HashesBehind
      <3>3. /\ tables' \in Tables /\ shownOverlay' \in Overlays \cup {NoOverlay}
            /\ cache' \in [seen : SUBSET Contents, overlapped : BOOLEAN]
        BY <1>14, <2>1 DEF Raise
      <3> QED
        BY <1>14, <2>1, <3>1, <3>2, <3>3 DEF Raise, KnowledgeTypeOK
    <2>2. CASE mode # "start"
      BY <1>14, <2>2 DEF Raise, KnowledgeTypeOK, HashesBehind
    <2> QED
      BY <2>1, <2>2
  <1>15. ASSUME EditFile PROVE KnowledgeTypeOK' /\ HashesBehind'
    <2>1. files' \in Files /\ edits' \in 0..MaxEdits /\ HashesBehind'
      BY <1>15, EditIsFresh DEF EditFile
    <2> QED
      BY <1>15, <2>1 DEF EditFile, KnowledgeTypeOK
  <1>16. ASSUME Restart PROVE KnowledgeTypeOK' /\ HashesBehind'
    <2>1. matching' \in [Threads -> [seen : SUBSET Contents, overlapped : BOOLEAN]]
      BY <1>16 DEF Restart
    <2>2. /\ tables' \in Tables /\ shownOverlay' \in Overlays \cup {NoOverlay}
          /\ cache' \in [seen : SUBSET Contents, overlapped : BOOLEAN]
      BY <1>16 DEF Restart
    <2>3. restarts' \in 0..MaxRestarts
      BY <1>16 DEF Restart, KnowledgeTypeOK
    <2>4. HashesBehind'
      BY <1>16 DEF Restart, HashesBehind
    <2> QED
      BY <1>16, <2>1, <2>2, <2>3, <2>4 DEF Restart, KnowledgeTypeOK
  <1>17. ASSUME NEW t \in Threads, ReadTables(t) PROVE KnowledgeTypeOK' /\ HashesBehind'
    <2>1. Served \in Contents
      BY DEF Served, Contents, KnowledgeTypeOK
    <2>2. matching' \in [Threads -> [seen : SUBSET Contents, overlapped : BOOLEAN]]
      BY <1>17, <2>1 DEF ReadTables, KnowledgeTypeOK
    <2> QED
      BY <1>17, <2>2 DEF ReadTables, KnowledgeTypeOK, HashesBehind
  <1>18. ASSUME NEW t \in Threads, StoreMatch(t) \/ AbandonMatch(t)
         PROVE  KnowledgeTypeOK' /\ HashesBehind'
    <2>1. /\ matching' \in [Threads -> [seen : SUBSET Contents, overlapped : BOOLEAN]]
          /\ cache' \in [seen : SUBSET Contents, overlapped : BOOLEAN]
      BY <1>18 DEF StoreMatch, AbandonMatch, KnowledgeTypeOK
    <2> QED
      BY <1>18, <2>1 DEF StoreMatch, AbandonMatch, KnowledgeTypeOK, HashesBehind
  <1>19. CASE UNCHANGED knowledgeVars
    BY <1>19 DEF knowledgeVars, KnowledgeTypeOK, HashesBehind
  <1> QED
    BY <1>1, <1>2, <1>3, <1>4, <1>5, <1>6, <1>7, <1>8, <1>9, <1>10, <1>11, <1>12,
       <1>13, <1>14, <1>15, <1>16, <1>17, <1>18, <1>19 DEF Next, Requests, Loading

-----------------------------------------------------------------------------
(* The load paths.                                                         *)

Paths ==
    /\ RefreshPath /\ ReseedPath /\ SyncPath /\ Settling
    /\ RefreshStampHonest /\ ServesSnapshot /\ ActiveOverlayApplied

\* An edit keeps every path: it makes all recorded hashes obsolete, which is
\* what the paths condition on, and it ends the quiet of a running reseed.
LEMMA EditKeepsPaths ==
    ASSUME Paths, stamp' # files', hash' # files',
           quiet' = (quiet /\ step = "idle"),
           UNCHANGED <<rows, stamp, hash, activeOverlay, tables, shownOverlay,
                       runtimeSource, step, mode, stampedBy, failed>>
    PROVE  Paths'
  <1>1. RefreshPath'
    BY DEF Paths, RefreshPath
  <1>2. ReseedPath'
    BY DEF Paths, ReseedPath, Settling
  <1>3. SyncPath'
    BY DEF Paths, SyncPath
  <1>4. Settling' /\ RefreshStampHonest' /\ ServesSnapshot' /\ ActiveOverlayApplied'
    BY DEF Paths, Settling, RefreshStampHonest, ServesSnapshot, ActiveOverlayApplied
  <1> QED
    BY <1>1, <1>2, <1>3, <1>4 DEF Paths

\* Every step keeps the paths.
LEMMA PathStep ==
    ASSUME KnowledgeInv, [Next]_knowledgeVars
    PROVE  Paths'
  <1>0. KnowledgeTypeOK /\ HashesBehind /\ Paths
    BY DEF KnowledgeInv, Paths
  <1> USE DEF diskVars, boundVars
  <1>1. ASSUME Reload \/ Reseed \/ ChangeOverlay PROVE Paths'
    BY <1>0, <1>1 DEF Reload, Reseed, ChangeOverlay, Request, Paths, RefreshPath,
       ReseedPath, SyncPath, Settling, RefreshStampHonest, ServesSnapshot,
       ActiveOverlayApplied
  <1>2. ASSUME ChangeRegistry \/ AuthorGlossary PROVE Paths'
    <2>1. stamp' # files' /\ hash' # files'
      BY <1>0, <1>2, EditIsFresh DEF ChangeRegistry, AuthorGlossary, Request
    <2> QED
      BY <1>0, <1>2, <2>1 DEF ChangeRegistry, AuthorGlossary, Request, Paths, RefreshPath,
         ReseedPath, SyncPath, Settling, RefreshStampHonest, ServesSnapshot,
         ActiveOverlayApplied
  <1>3. ASSUME CheckSnapshot PROVE Paths'
    BY <1>0, <1>3 DEF CheckSnapshot, LoopStep, Paths, RefreshPath, ReseedPath, SyncPath,
       Settling, RefreshStampHonest, ServesSnapshot, ActiveOverlayApplied
  <1>4. ASSUME Clear PROVE Paths'
    <2>1. /\ mode \in {"start", "refresh"} => step' = "compare_hash"
          /\ mode = "reseed" => step' = "parse_glossary"
          /\ mode = "sync" => step' = "load_persisted"
      BY <1>4 DEF Clear, LoopStep, AfterClear
    <2>2. mode \in {"start", "refresh", "reseed", "sync"}
      BY <1>0 DEF KnowledgeTypeOK, Modes
    <2> QED
      BY <1>0, <1>4, <2>1, <2>2 DEF Clear, LoopStep, Paths, RefreshPath, ReseedPath,
         SyncPath, Settling, RefreshStampHonest, ServesSnapshot, ActiveOverlayApplied
  <1>5. ASSUME CompareHash PROVE Paths'
    <2>1. rows \in Rows /\ Saved(Loaded(rows)) = rows
      BY <1>0, LoadThenSave DEF KnowledgeTypeOK
    <2> QED
      BY <1>0, <1>5, <2>1 DEF CompareHash, LoopStep, Paths, RefreshPath, ReseedPath, SyncPath,
         Settling, RefreshStampHonest, ServesSnapshot, ActiveOverlayApplied
  <1>6. ASSUME ParseGlossary PROVE Paths'
    <2>1. tables'.glossary = files.glossary
      BY <1>0, <1>6 DEF ParseGlossary, KnowledgeTypeOK, Tables
    <2> QED
      BY <1>0, <1>6, <2>1 DEF ParseGlossary, LoopStep, Paths, RefreshPath, ReseedPath,
         SyncPath, Settling, RefreshStampHonest, ServesSnapshot, ActiveOverlayApplied
  <1>7. ASSUME ParseRegistry PROVE Paths'
    <2>1. tables.glossary = files.glossary => tables' = Parsed(files)
      BY <1>0, <1>7 DEF ParseRegistry, KnowledgeTypeOK, Files
    <2> QED
      BY <1>0, <1>7, <2>1 DEF ParseRegistry, LoopStep, Paths, RefreshPath, ReseedPath,
         SyncPath, Settling, RefreshStampHonest, ServesSnapshot, ActiveOverlayApplied
  <1>8. ASSUME LoadPersisted PROVE Paths'
    <2>1. tables'.knowledge = rows.knowledge /\ tables' = Loaded(Saved(tables'))
      BY <1>0, <1>8 DEF LoadPersisted, Loaded, Saved
    <2> QED
      BY <1>0, <1>8, <2>1 DEF LoadPersisted, LoopStep, Paths, RefreshPath, ReseedPath,
         SyncPath, Settling, RefreshStampHonest, ServesSnapshot, ActiveOverlayApplied
  <1>9. ASSUME ComputeHash PROVE Paths'
    BY <1>0, <1>9 DEF ComputeHash, LoopStep, Paths, RefreshPath, ReseedPath, SyncPath,
       Settling, RefreshStampHonest, ServesSnapshot, ActiveOverlayApplied
  <1>10. ASSUME SaveRows PROVE Paths'
    <2>1. rows' = Saved(tables)
      BY <1>0, <1>10 DEF SaveRows, LoopStep, Paths, SyncPath, Saved
    <2> QED
      BY <1>0, <1>10, <2>1 DEF SaveRows, LoopStep, KnowledgeTypeOK, Modes, Paths,
         RefreshPath, ReseedPath, SyncPath, Settling, RefreshStampHonest,
         ServesSnapshot, ActiveOverlayApplied
  <1>11. ASSUME SaveStamp PROVE Paths'
    BY <1>0, <1>11 DEF SaveStamp, LoopStep, Paths, RefreshPath, ReseedPath, SyncPath,
       Settling, RefreshStampHonest, ServesSnapshot, ActiveOverlayApplied
  <1>12. ASSUME ApplyOverlay PROVE Paths'
    BY <1>0, <1>12 DEF ApplyOverlay, LoopStep, Paths, RefreshPath, ReseedPath, SyncPath,
       Settling, RefreshStampHonest, ServesSnapshot, ActiveOverlayApplied
  <1>13. ASSUME Raise PROVE Paths'
    <2>1. CASE mode = "start"
      BY <1>0, <1>13, <2>1 DEF Raise, Paths, RefreshPath, ReseedPath, SyncPath, Settling,
         RefreshStampHonest, ServesSnapshot, ActiveOverlayApplied
    <2>2. CASE mode # "start"
      BY <1>0, <1>13, <2>2 DEF Raise, Paths, RefreshPath, ReseedPath, SyncPath, Settling,
         RefreshStampHonest, ServesSnapshot, ActiveOverlayApplied
    <2> QED
      BY <2>1, <2>2
  <1>14. ASSUME EditFile PROVE Paths'
    <2>1. stamp' # files' /\ hash' # files'
      BY <1>0, <1>14, EditIsFresh DEF EditFile
    <2> QED
      BY <1>0, <1>14, <2>1, EditKeepsPaths DEF EditFile
  <1>15. ASSUME Restart PROVE Paths'
    BY <1>0, <1>15 DEF Restart, Paths, RefreshPath, ReseedPath, SyncPath, Settling,
       RefreshStampHonest, ServesSnapshot, ActiveOverlayApplied
  <1>16. ASSUME NEW t \in Threads, ReadTables(t) \/ StoreMatch(t) \/ AbandonMatch(t)
         PROVE  Paths'
    BY <1>0, <1>16 DEF ReadTables, StoreMatch, AbandonMatch, Paths, RefreshPath,
       ReseedPath, SyncPath, Settling, RefreshStampHonest, ServesSnapshot,
       ActiveOverlayApplied
  <1>17. CASE UNCHANGED knowledgeVars
    BY <1>0, <1>17 DEF knowledgeVars, Paths, RefreshPath, ReseedPath, SyncPath, Settling,
       RefreshStampHonest, ServesSnapshot, ActiveOverlayApplied
  <1> QED
    BY <1>1, <1>2, <1>3, <1>4, <1>5, <1>6, <1>7, <1>8, <1>9, <1>10, <1>11, <1>12,
       <1>13, <1>14, <1>15, <1>16, <1>17 DEF Next, Requests, Loading

\* A fresh deployment satisfies the invariant.
LEMMA KnowledgeInvInit == Init => KnowledgeInv
  <1> SUFFICES ASSUME Init PROVE KnowledgeInv
    OBVIOUS
  <1>1. 0 \in Version /\ 1 \in Version /\ MaxEdits \in Nat
        /\ MaxFaults \in Nat /\ MaxRestarts \in Nat
    BY KnowledgeBoundsAssumption DEF Version
  <1>2. files \in Files /\ files.glossary = 1 /\ files.registry \in {0, 1}
    BY <1>1 DEF Init, Files
  <1>3. KnowledgeTypeOK
    <2>1. matching \in [Threads -> [seen : SUBSET Contents, overlapped : BOOLEAN]]
      BY ContentTypes DEF Init
    <2>2. /\ cache \in [seen : SUBSET Contents, overlapped : BOOLEAN]
          /\ rows \in Rows /\ tables \in Tables
          /\ stamp \in Files /\ hash \in Files
      BY ContentTypes DEF Init
    <2>3. /\ edits \in 0..MaxEdits /\ faults \in 0..MaxFaults
          /\ restarts \in 0..MaxRestarts
      BY <1>1 DEF Init
    <2>4. /\ activeOverlay \in Overlays \cup {NoOverlay}
          /\ shownOverlay \in Overlays \cup {NoOverlay}
          /\ step \in Steps /\ mode \in Modes /\ stampedBy \in Modes
          /\ runtimeSource \in Sources /\ failed \in BOOLEAN /\ quiet \in BOOLEAN
      BY DEF Init, Steps, Modes, Sources
    <2> QED
      BY <1>2, <2>1, <2>2, <2>3, <2>4 DEF KnowledgeTypeOK
  <1>4. HashesBehind
    BY <1>2 DEF Init, HashesBehind, NoStamp
  <1>5. stamp # files
    BY <1>2 DEF Init, NoStamp
  <1>6. RefreshPath /\ ReseedPath /\ SyncPath /\ Settling
    BY DEF Init, RefreshPath, ReseedPath, SyncPath, Settling
  <1>7. RefreshStampHonest /\ ServesSnapshot /\ ActiveOverlayApplied
    BY <1>5 DEF Init, RefreshStampHonest, ServesSnapshot, ActiveOverlayApplied
  <1> QED
    BY <1>3, <1>4, <1>6, <1>7 DEF KnowledgeInv

-----------------------------------------------------------------------------
(* Theorems.                                                               *)

\* The invariant is inductive, hence holds in every reachable state.
THEOREM KnowledgeConsistent == Spec => []KnowledgeInv
  <1>1. KnowledgeInv /\ [Next]_knowledgeVars => KnowledgeInv'
    <2> SUFFICES ASSUME KnowledgeInv, [Next]_knowledgeVars PROVE KnowledgeInv'
      OBVIOUS
    <2>1. KnowledgeTypeOK' /\ HashesBehind'
      BY TypeStep DEF KnowledgeInv
    <2>2. Paths'
      BY PathStep
    <2> QED
      BY <2>1, <2>2 DEF KnowledgeInv, Paths
  <1> QED
    BY <1>1, KnowledgeInvInit, PTL DEF Spec

\* Files, snapshot, tables, cache and program counter keep their types.
THEOREM KnowledgeTypeCorrect == Spec => []KnowledgeTypeOK
  <1>1. KnowledgeInv => KnowledgeTypeOK
    BY DEF KnowledgeInv
  <1> QED
    BY <1>1, KnowledgeConsistent, PTL

\* A stamp that refresh wrote never declares a stale snapshot current.
THEOREM RefreshStampsHonest == Spec => []RefreshStampHonest
  <1>1. KnowledgeInv => RefreshStampHonest
    BY DEF KnowledgeInv
  <1> QED
    BY <1>1, KnowledgeConsistent, PTL

\* Between requests that succeed, memory and snapshot come from the same
\* versions, and they are equal, index included, unless memory was parsed.
THEOREM SnapshotServed == Spec => []ServesSnapshot
  <1>1. KnowledgeInv => ServesSnapshot
    BY DEF KnowledgeInv
  <1> QED
    BY <1>1, KnowledgeConsistent, PTL

\* Between requests that succeed, the active overlay is the one applied.
THEOREM OverlayApplied == Spec => []ActiveOverlayApplied
  <1>1. KnowledgeInv => ActiveOverlayApplied
    BY DEF KnowledgeInv
  <1> QED
    BY <1>1, KnowledgeConsistent, PTL

\* A reseed nobody disturbs rebuilds everything from the files.
THEOREM ReseedsRebuild == Spec => ReseedRebuilds
  <1> DEFINE Rebuilt ==
        (mode = "reseed" /\ quiet /\ step = "apply_overlay" /\ step' = "idle" /\ ~failed')
        => /\ rows' = Saved(Parsed(files'))
           /\ tables' = Parsed(files')
           /\ stamp' = files'
  <1>1. KnowledgeInv /\ [Next]_knowledgeVars => [Rebuilt]_knowledgeVars
    <2> SUFFICES ASSUME KnowledgeInv, [Next]_knowledgeVars, mode = "reseed", quiet,
                        step = "apply_overlay", step' = "idle", ~failed'
                 PROVE  /\ rows' = Saved(Parsed(files'))
                        /\ tables' = Parsed(files')
                        /\ stamp' = files'
      OBVIOUS
    <2>1. rows = Saved(Parsed(files)) /\ tables = Parsed(files) /\ stamp = files
      BY DEF KnowledgeInv, ReseedPath
    <2>2. ApplyOverlay
      BY DEF Next, Requests, Loading, Reload, Reseed, ChangeRegistry, AuthorGlossary,
             ChangeOverlay, Request, CheckSnapshot, Clear, CompareHash, ParseGlossary,
             ParseRegistry, LoadPersisted, ComputeHash, SaveRows, SaveStamp, LoopStep,
             Raise, EditFile, Restart, ReadTables, StoreMatch, AbandonMatch, knowledgeVars
    <2> QED
      BY <2>1, <2>2 DEF ApplyOverlay, diskVars
  <1> QED
    BY <1>1, KnowledgeConsistent, PTL DEF Spec, ReseedRebuilds

-----------------------------------------------------------------------------
(* The match cache.                                                        *)

\* The tables are as the last request left them.
Unloaded == {"idle", "check_snapshot", "clear"}

\* A match no step of a load has overlapped exists only while the tables are
\* untouched, and has read nothing but them; so has a memoised one.
MatchesCurrent ==
    /\ \A t \in Threads : matching[t] # NoMatch /\ ~matching[t].overlapped =>
          step \in Unloaded /\ matching[t].seen = {Served}
    /\ cache # NoMatch /\ ~cache.overlapped =>
          step \in Unloaded /\ cache.seen = {Served}

\* A step of the load overlaps every match in progress.
LEMMA LoadOverlaps ==
    ASSUME KnowledgeTypeOK, NEW at, NEW next, LoopStep(at, next)
    PROVE  \A t \in Threads : matching'[t] # NoMatch => matching'[t].overlapped
  BY DEF LoopStep, Overlapped, KnowledgeTypeOK

\* Every step keeps what is memoised current.
LEMMA MatchStep ==
    ASSUME KnowledgeTypeOK, MatchesCurrent, [Next]_knowledgeVars
    PROVE  MatchesCurrent'
  <1> USE DEF MatchesCurrent, Served, Unloaded
  <1>1. ASSUME Requests PROVE MatchesCurrent'
    BY <1>1 DEF Requests, Reload, Reseed, ChangeRegistry, AuthorGlossary, ChangeOverlay, Request
  <1>2. ASSUME CheckSnapshot PROVE MatchesCurrent'
    <2>1. \A t \in Threads : matching'[t] # NoMatch => matching'[t].overlapped
      BY <1>2, LoadOverlaps DEF CheckSnapshot
    <2> QED
      BY <1>2, <2>1 DEF CheckSnapshot, LoopStep
  <1>3. ASSUME Clear PROVE MatchesCurrent'
    <2>1. \A t \in Threads : matching'[t] # NoMatch => matching'[t].overlapped
      BY <1>3, LoadOverlaps DEF Clear
    <2> QED
      BY <1>3, <2>1 DEF Clear
  <1>4. ASSUME Loading, ~CheckSnapshot, ~Clear PROVE MatchesCurrent'
    <2>1. step \notin Unloaded /\ UNCHANGED cache
      BY <1>4 DEF Loading, CompareHash, ParseGlossary, ParseRegistry, LoadPersisted,
         ComputeHash, SaveRows, SaveStamp, ApplyOverlay, LoopStep
    <2>2. \A t \in Threads : matching'[t] # NoMatch => matching'[t].overlapped
      BY <1>4, LoadOverlaps DEF Loading, CompareHash, ParseGlossary, ParseRegistry,
         LoadPersisted, ComputeHash, SaveRows, SaveStamp, ApplyOverlay
    <2> QED
      BY <2>1, <2>2
  <1>5. ASSUME Raise PROVE MatchesCurrent'
    <2>1. CASE mode = "start"
      BY <1>5, <2>1 DEF Raise
    <2>2. CASE mode # "start"
      BY <1>5, <2>2 DEF Raise
    <2> QED
      BY <2>1, <2>2
  <1>6. ASSUME EditFile PROVE MatchesCurrent'
    BY <1>6 DEF EditFile
  <1>7. ASSUME Restart PROVE MatchesCurrent'
    BY <1>7 DEF Restart
  <1>8. ASSUME NEW t \in Threads, ReadTables(t) PROVE MatchesCurrent'
    <2>1. /\ matching'[t].seen = matching[t].seen \cup {Served}
          /\ matching'[t].overlapped = (matching[t].overlapped \/ step # "idle")
          /\ \A u \in Threads : u # t => matching'[u] = matching[u]
      BY <1>8 DEF ReadTables, KnowledgeTypeOK
    <2>2. ~matching'[t].overlapped => matching'[t].seen = {Served}
      <3>1. CASE matching[t] = NoMatch
        BY <2>1, <3>1 DEF NoMatch
      <3>2. CASE matching[t] # NoMatch
        BY <2>1, <3>2
      <3> QED
        BY <3>1, <3>2
    <2>3. UNCHANGED <<step, tables, shownOverlay, cache>>
      BY <1>8 DEF ReadTables
    <2> QED
      BY <2>1, <2>2, <2>3
  <1>9. ASSUME NEW t \in Threads, StoreMatch(t) \/ AbandonMatch(t) PROVE MatchesCurrent'
    <2>1. \A u \in Threads : matching'[u] # NoMatch => u # t /\ matching'[u] = matching[u]
      BY <1>9 DEF StoreMatch, AbandonMatch, KnowledgeTypeOK
    <2> QED
      BY <1>9, <2>1 DEF StoreMatch, AbandonMatch
  <1>10. CASE UNCHANGED knowledgeVars
    BY <1>10 DEF knowledgeVars
  <1> QED
    BY <1>1, <1>2, <1>3, <1>4, <1>5, <1>6, <1>7, <1>8, <1>9, <1>10 DEF Next

\* The cache holds no stale match but those a load overlapped.
THEOREM MatchesStayCurrent == Spec => []OnlyOverlappedMatchesStale
  <1>1. Init => MatchesCurrent
    BY DEF Init, MatchesCurrent
  <1>2. KnowledgeTypeOK /\ MatchesCurrent /\ [Next]_knowledgeVars => MatchesCurrent'
    BY MatchStep
  <1>3. MatchesCurrent => OnlyOverlappedMatchesStale
    BY DEF MatchesCurrent, OnlyOverlappedMatchesStale
  <1> QED
    BY <1>1, <1>2, <1>3, KnowledgeTypeCorrect, PTL DEF Spec
=============================================================================
