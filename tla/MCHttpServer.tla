---------------------------- MODULE MCHttpServer ----------------------------
(* TLC instance of HttpServer; the callers and clients are in the cfg. *)
EXTENDS HttpServer
=============================================================================
