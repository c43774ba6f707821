----------------------- MODULE WaitGraphSearchProofs -----------------------
(***************************************************************************)
(* The deadlock search computes reachability, for every finite wait graph. *)
(***************************************************************************)
EXTENDS WaitGraphSearch, FiniteSetTheorems, TLAPS

Seen == visited \cup Elems(stack)

(* While the search runs: the start is seen; `from` is not yet visited;    *)
(* everything a visited node waits for is seen; nothing unreachable is     *)
(* seen.  With an empty stack the visited set is closed, which settles the *)
(* negative answer.                                                        *)
SearchInv ==
  /\ TypeOK
  /\ SearchCorrect
  /\ result = "running" =>
       /\ to \in Seen
       /\ from \notin visited
       /\ \A v \in visited : graph[v] \subseteq Seen
       /\ Seen \subseteq ReachableFrom(graph, to)

(* Reachability is closed, and holds its starting point. *)
LEMMA ReachableClosed ==
  ASSUME NEW g \in [Nodes -> SUBSET Nodes], NEW t \in Nodes
  PROVE  /\ t \in ReachableFrom(g, t)
         /\ \A u \in ReachableFrom(g, t) : g[u] \subseteq ReachableFrom(g, t)
  BY DEF ReachableFrom, Closed

(* What popping the stack and pushing an order of a set leaves on it. *)
LEMMA PopElems ==
  ASSUME stack \in Seq(Nodes), stack # <<>>
  PROVE  /\ Current \in Nodes
         /\ Rest \in Seq(Nodes)
         /\ Elems(stack) = Elems(Rest) \cup {Current}
<1>1. Len(stack) \in Nat \ {0}
  OBVIOUS
<1>2. /\ Rest \in Seq(Nodes)
      /\ Len(Rest) = Len(stack) - 1
      /\ \A i \in 1 .. Len(Rest) : Rest[i] = stack[i]
  BY <1>1 DEF Rest
<1> QED
  BY <1>1, <1>2 DEF Elems, Current

(* Pushing the neighbours, in whatever order, adds just these.             *)
LEMMA OrderElems ==
  ASSUME IsFiniteSet(Nodes), NEW S \in SUBSET Nodes, NEW order \in Orders(S), NEW s \in Seq(Nodes)
  PROVE  s \o order \in Seq(Nodes) /\ Elems(s \o order) = Elems(s) \cup S
<1>1. Cardinality(S) \in Nat
  BY FS_Subset, FS_CardinalityType
<1>2. /\ order \in Seq(Nodes) /\ Len(order) = Cardinality(S)
      /\ Elems(order) = S
  BY <1>1 DEF Orders, Elems
<1>3. Elems(s \o order) = Elems(s) \cup Elems(order)
  <2>1. Len(s \o order) = Len(s) + Len(order)
    BY <1>2
  <2>2. \A i \in 1 .. Len(s) : (s \o order)[i] = s[i]
    BY <1>2
  <2>3. \A i \in 1 .. Len(order) : (s \o order)[Len(s) + i] = order[i]
    BY <1>2
  <2>4. Elems(s \o order) \subseteq Elems(s) \cup Elems(order)
    <3> SUFFICES ASSUME NEW i \in 1 .. Len(s \o order)
                 PROVE  (s \o order)[i] \in Elems(s) \cup Elems(order)
      BY DEF Elems
    <3>1. CASE i <= Len(s)
      BY <2>2, <3>1 DEF Elems
    <3>2. CASE i > Len(s)
      <4>1. i - Len(s) \in 1 .. Len(order) /\ i = Len(s) + (i - Len(s))
        BY <1>2, <2>1, <3>2
      <4> QED
        BY <4>1, <2>3 DEF Elems
    <3> QED
      BY <3>1, <3>2
  <2>5. Elems(s) \subseteq Elems(s \o order)
    BY <1>2, <2>1, <2>2 DEF Elems
  <2>6. Elems(order) \subseteq Elems(s \o order)
    <3> SUFFICES ASSUME NEW i \in 1 .. Len(order)
                 PROVE  order[i] \in Elems(s \o order)
      BY DEF Elems
    <3>1. Len(s) + i \in 1 .. Len(s \o order)
      BY <1>2, <2>1
    <3> QED
      BY <2>3, <3>1 DEF Elems
  <2> QED
    BY <2>4, <2>5, <2>6
<1> QED
  BY <1>2, <1>3

(* Before the first step only the start is on the stack.                   *)
LEMMA InitSearchInv == Init => SearchInv
<1> SUFFICES ASSUME Init PROVE SearchInv
  OBVIOUS
<1>1. Elems(stack) = {to} /\ stack \in Seq(Nodes)
  BY DEF Init, Elems
<1>2. to \in ReachableFrom(graph, to)
  BY ReachableClosed DEF Init
<1> QED
  BY <1>1, <1>2 DEF Init, SearchInv, TypeOK, SearchCorrect, Seen

(* A step of the search keeps everything seen accounted for.               *)
LEMMA StepSearchInv ==
  ASSUME IsFiniteSet(Nodes)
  PROVE  SearchInv /\ [Next]_vars => SearchInv'
<1> SUFFICES ASSUME SearchInv, [Next]_vars PROVE SearchInv'
  OBVIOUS
<1>a. TypeOK
  BY DEF SearchInv
<1>b. ASSUME stack # <<>>
      PROVE  /\ Current \in Nodes /\ Rest \in Seq(Nodes)
             /\ Elems(stack) = Elems(Rest) \cup {Current}
  BY <1>a, <1>b, PopElems DEF TypeOK
<1>1. CASE SkipVisited
  <2>1. TypeOK'
    BY <1>1, <1>a, <1>b DEF SkipVisited, TypeOK
  <2>2. Seen' = Seen
    BY <1>1, <1>b DEF SkipVisited, Seen
  <2> QED
    BY <1>1, <2>1, <2>2 DEF SkipVisited, SearchInv, SearchCorrect
<1>2. CASE FoundFrom
  <2>1. TypeOK'
    BY <1>2, <1>a, <1>b DEF FoundFrom, TypeOK
  <2>2. from \in ReachableFrom(graph, to)
    BY <1>2, <1>b DEF FoundFrom, SearchInv, Seen
  <2> QED
    BY <1>2, <2>1, <2>2 DEF FoundFrom, SearchInv, SearchCorrect
<1>3. CASE Expand
  <2>1. PICK order \in Orders(graph[Current]) : stack' = Rest \o order
    BY <1>3 DEF Expand
  <2>2. /\ Current \in Nodes /\ Rest \in Seq(Nodes)
        /\ Elems(stack) = Elems(Rest) \cup {Current}
    BY <1>3, <1>b DEF Expand
  <2>3. /\ stack' \in Seq(Nodes)
        /\ Elems(stack)' = Elems(Rest) \cup graph[Current]
    <3>1. graph[Current] \in SUBSET Nodes
      BY <2>2, <1>a DEF TypeOK
    <3>2. Elems(stack)' = Elems(Rest \o order)
      BY <2>1 DEF Elems
    <3> QED
      BY <2>1, <2>2, <3>1, <3>2, OrderElems
  <2>4. TypeOK'
    BY <1>3, <1>a, <2>2, <2>3 DEF Expand, TypeOK
  <2>5. Seen' = Seen \cup graph[Current]
    BY <1>3, <2>2, <2>3 DEF Expand, Seen
  <2>6. Current \in ReachableFrom(graph, to) /\ graph[Current] \subseteq ReachableFrom(graph, to)
    BY <1>3, <1>a, <2>2, ReachableClosed DEF Expand, SearchInv, Seen, TypeOK
  <2> QED
    BY <1>3, <2>4, <2>5, <2>6 DEF Expand, SearchInv, SearchCorrect
<1>4. CASE Exhausted
  <2>1. TypeOK'
    BY <1>4, <1>a DEF Exhausted, TypeOK
  <2>2. Seen = visited
    BY <1>4 DEF Exhausted, Seen, Elems
  <2>3. to \in visited /\ from \notin visited /\ Closed(graph, visited)
    BY <1>4, <2>2 DEF Exhausted, SearchInv, Closed
  <2>4. from \notin ReachableFrom(graph, to)
    BY <1>a, <2>3 DEF TypeOK, ReachableFrom
  <2> QED
    BY <1>4, <2>1, <2>4 DEF Exhausted, SearchInv, SearchCorrect
<1>5. CASE UNCHANGED vars
  BY <1>5 DEF vars, SearchInv, TypeOK, SearchCorrect, Seen
<1> QED
  BY <1>1, <1>2, <1>3, <1>4, <1>5 DEF Next

(* WouldIntroduceCycleLocked answers true exactly when the edge it is      *)
(* asked about would close a cycle, whatever finite set of threads there   *)
(* is, whatever the graph and the order in which successors come out of it *)
(* (the runtime has as many thread ids as it has created threads).         *)
THEOREM SearchTheorem ==
  ASSUME IsFiniteSet(Nodes)
  PROVE  Spec => []SearchCorrect
<1>1. SearchInv => SearchCorrect
  BY DEF SearchInv
<1> QED
  BY <1>1, InitSearchInv, StepSearchInv, PTL DEF Spec
=============================================================================
