---------------------------- MODULE MCCallStack ----------------------------
(* TLC instances of CallStack; the limits are in the cfg. *)
EXTENDS CallStack
=============================================================================
