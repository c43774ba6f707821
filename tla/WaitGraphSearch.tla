-------------------------- MODULE WaitGraphSearch --------------------------
(***************************************************************************)
(* The loop of SharedRuntime::WouldIntroduceCycleLocked: a depth-first     *)
(* search of m_waitGraph with an explicit stack.  The runtime holds        *)
(* m_syncMutex for the whole search, so the graph does not change under    *)
(* it; one step of this module is one iteration.  The successors come out  *)
(* of an unordered_set, so they are pushed in any order.                   *)
(***************************************************************************)
EXTENDS Naturals, Sequences, FiniteSets, WaitGraph

CONSTANT Nodes   \* the thread ids

VARIABLES graph, from, to,  \* the inputs
          visited, stack,   \* the locals
          result            \* "running" until the function returns

vars == <<graph, from, to, visited, stack, result>>

Elems(s) == {s[i] : i \in 1 .. Len(s)}

(* The orders in which an iteration over the set S may yield it. *)
Orders(S) ==
  {s \in [1 .. Cardinality(S) -> S] : \A x \in S : \E i \in 1 .. Cardinality(S) : s[i] = x}

Init ==
  /\ graph \in [Nodes -> SUBSET Nodes]
  /\ from \in Nodes
  /\ to \in Nodes
  /\ visited = {}
  /\ stack = <<to>>
  /\ result = IF from = to THEN "true" ELSE "running"

Current == stack[Len(stack)]
Rest == [i \in 1 .. Len(stack) - 1 |-> stack[i]]

(* A node popped again is skipped. *)
SkipVisited ==
  /\ result = "running"
  /\ stack # <<>>
  /\ Current \in visited
  /\ stack' = Rest
  /\ UNCHANGED <<graph, from, to, visited, result>>

FoundFrom ==
  /\ result = "running"
  /\ stack # <<>>
  /\ Current \notin visited
  /\ Current = from
  /\ visited' = visited \cup {Current}
  /\ stack' = Rest
  /\ result' = "true"
  /\ UNCHANGED <<graph, from, to>>

Expand ==
  /\ result = "running"
  /\ stack # <<>>
  /\ Current \notin visited
  /\ Current # from
  /\ visited' = visited \cup {Current}
  /\ \E order \in Orders(graph[Current]) : stack' = Rest \o order
  /\ UNCHANGED <<graph, from, to, result>>

Exhausted ==
  /\ result = "running"
  /\ stack = <<>>
  /\ result' = "false"
  /\ UNCHANGED <<graph, from, to, visited, stack>>

Next == SkipVisited \/ FoundFrom \/ Expand \/ Exhausted

Spec == Init /\ [][Next]_vars

-----------------------------------------------------------------------------

TypeOK ==
  /\ graph \in [Nodes -> SUBSET Nodes]
  /\ from \in Nodes
  /\ to \in Nodes
  /\ visited \in SUBSET Nodes
  /\ stack \in Seq(Nodes)
  /\ result \in {"running", "true", "false"}

(* The function answers true exactly when `to` waits for `from`, directly  *)
(* or through others (or is `from`): it neither misses a deadlock nor      *)
(* reports one that is not in the graph.                                   *)
SearchCorrect ==
  /\ result = "true" => from \in ReachableFrom(graph, to)
  /\ result = "false" => from \notin ReachableFrom(graph, to)
=============================================================================
