--------------------------- MODULE MCSyncRuntime ---------------------------
(* TLC instance of SyncRuntime; the bounds are in the cfg. *)
EXTENDS SyncRuntime
=============================================================================
