--------------------------- MODULE MCDraftSessions ---------------------------
(***************************************************************************)
(* DraftSessions for TLC: alice, bob, and a guest who works on a server    *)
(* that runs without authentication (a configuration reload switches it).  *)
(***************************************************************************)
EXTENDS DraftSessions

CONSTANTS alice, bob, guest

MCActor == [c \in Clients |-> IF c = guest THEN NoActor ELSE c]
=============================================================================
