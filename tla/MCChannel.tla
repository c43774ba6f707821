----------------------------- MODULE MCChannel -----------------------------
(* TLC instances of Channel; the tasks and the capacity are in the cfg. *)
EXTENDS Channel
=============================================================================
