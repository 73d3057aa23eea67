--------------------------- MODULE MCPersistence ---------------------------
(* Small instances of Persistence for TLC. *)
EXTENDS Persistence
=============================================================================
