----------------------------- MODULE WaitGraph -----------------------------
(***************************************************************************)
(* Reachability in a wait graph, a function from each thread to the set of *)
(* threads it waits for.  This is what the depth-first search of           *)
(* SharedRuntimeSync.cpp is expected to compute; WaitGraphSearch shows     *)
(* that its loop does.                                                     *)
(***************************************************************************)

(* Nothing in S waits for a thread outside S. *)
Closed(g, S) == \A t \in S : g[t] \subseteq S

(* The least closed set that holds t: t and all it waits for, directly or  *)
(* through others.                                                         *)
ReachableFrom(g, t) ==
  {u \in DOMAIN g :
     \A S \in SUBSET DOMAIN g : t \in S /\ Closed(g, S) => u \in S}
=============================================================================
