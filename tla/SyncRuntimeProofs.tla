------------------------- MODULE SyncRuntimeProofs -------------------------
(***************************************************************************)
(* For every number of threads and mutexes: the runtime's bookkeeping is   *)
(* consistent and its wait graph never holds a cycle.                      *)
(***************************************************************************)
EXTENDS SyncRuntime, FiniteSetTheorems, TLAPS

WaitGraphs == [Threads -> SUBSET Threads]

(* The inductive invariant: the parts need each other.  An edge of         *)
(* TryLockMutex points to an owner, which is active because a thread that  *)
(* finished owns nothing, which FinishThread achieves because the two      *)
(* records of ownership agree.                                             *)
SyncInv == SyncTypeOK /\ OwnershipAgrees /\ FinishedThreadsLeaveNothing

(* A thread is outside the search that starts at v exactly when some       *)
(* closed set separates it from v.                                         *)
LEMMA Separation ==
  ASSUME NEW g \in WaitGraphs, NEW t \in Threads, NEW v \in Threads
  PROVE  ~WouldIntroduceCycle(g, t, v)
           <=> \E S \in SUBSET Threads : v \in S /\ t \notin S /\ Closed(g, S)
  BY DEF WouldIntroduceCycle, ReachableFrom, WaitGraphs

(* Removing edges from an acyclic wait graph leaves it acyclic: what       *)
(* ClearWaitingEdgesFrom and FinishThread do.                              *)
LEMMA RemovalKeepsAcyclic ==
  ASSUME NEW g \in WaitGraphs, NEW h \in WaitGraphs,
         \A t \in Threads : h[t] \subseteq g[t],
         ~HasCycle(g)
  PROVE  ~HasCycle(h)
<1> SUFFICES ASSUME NEW t \in Threads, NEW u \in h[t]
             PROVE  ~WouldIntroduceCycle(h, t, u)
  BY DEF HasCycle
<1>1. u \in Threads /\ u \in g[t]
  BY DEF WaitGraphs
<1>2. PICK S \in SUBSET Threads : u \in S /\ t \notin S /\ Closed(g, S)
  BY <1>1, Separation DEF HasCycle
<1>3. Closed(h, S)
  BY <1>2 DEF Closed
<1> QED
  BY <1>1, <1>2, <1>3, Separation

(* A wait edge that TryLockMutex or JoinThread keeps closes no cycle.  A   *)
(* set S that separated an old edge from its source still does so once it  *)
(* is widened by, or cut down to, the set S0 that separates the new edge.  *)
LEMMA WaitForKeepsAcyclic ==
  ASSUME NEW g \in WaitGraphs, NEW t \in Threads, NEW u \in Threads, ~HasCycle(g)
  PROVE  WaitFor(g, t, u) \in WaitGraphs /\ ~HasCycle(WaitFor(g, t, u))
<1> DEFINE h == AddWaitEdge(g, t, u)
<1>1. /\ h \in WaitGraphs
      /\ h[t] = g[t] \cup {u}
      /\ \A a \in Threads \ {t} : h[a] = g[a]
  BY DEF AddWaitEdge, WaitGraphs
<1>2. CASE WouldIntroduceCycle(h, t, u)
  <2> DEFINE k == ClearWaitingEdgesFrom(h, t)
  <2>1. k \in WaitGraphs /\ \A a \in Threads : k[a] \subseteq g[a]
    BY <1>1 DEF ClearWaitingEdgesFrom, WaitGraphs
  <2>2. WaitFor(g, t, u) = k
    BY <1>2 DEF WaitFor
  <2> QED
    BY <2>1, <2>2, RemovalKeepsAcyclic
<1>3. CASE ~WouldIntroduceCycle(h, t, u)
  <2>1. WaitFor(g, t, u) = h
    BY <1>3 DEF WaitFor
  <2>2. PICK S0 \in SUBSET Threads : u \in S0 /\ t \notin S0 /\ Closed(h, S0)
    BY <1>1, <1>3, Separation
  <2>3. ASSUME NEW a \in Threads, NEW b \in h[a]
        PROVE  ~WouldIntroduceCycle(h, a, b)
    <3>0. b \in Threads
      BY <1>1 DEF WaitGraphs
    <3>1. CASE a = t /\ b = u
      BY <1>3, <3>1
    <3>2. CASE b \in g[a]
      <4>1. PICK S \in SUBSET Threads : b \in S /\ a \notin S /\ Closed(g, S)
        BY <3>0, <3>2, Separation DEF HasCycle
      <4>2. CASE t \notin S
        <5>1. Closed(h, S)
          BY <4>1, <4>2, <1>1 DEF Closed
        <5> QED
          BY <1>1, <5>1, <4>1, <3>0, Separation
      <4>3. CASE t \in S /\ a \notin S0
        <5>1. Closed(h, S \cup S0)
          BY <4>1, <4>3, <2>2, <1>1 DEF Closed
        <5>2. b \in S \cup S0 /\ a \notin S \cup S0 /\ S \cup S0 \in SUBSET Threads
          BY <4>1, <4>3, <2>2
        <5> QED
          BY <1>1, <5>1, <5>2, <3>0, Separation
      <4>4. CASE t \in S /\ a \in S0
        <5>1. a # t /\ b \in S0
          BY <4>4, <2>2, <1>1 DEF Closed
        <5>2. Closed(h, S \cap S0)
          BY <4>1, <2>2, <1>1 DEF Closed
        <5>3. b \in S \cap S0 /\ a \notin S \cap S0 /\ S \cap S0 \in SUBSET Threads
          BY <4>1, <5>1
        <5> QED
          BY <1>1, <5>2, <5>3, <3>0, Separation
      <4> QED
        BY <4>2, <4>3, <4>4
    <3> QED
      BY <3>1, <3>2, <1>1
  <2> QED
    BY <1>1, <2>1, <2>3 DEF HasCycle
<1> QED
  BY <1>2, <1>3

(* The counters are natural numbers because everything counted is finite.  *)
LEMMA StatsType ==
  ASSUME NEW act \in SUBSET Threads, NEW n \in 1 .. MaxMutexes + 1, NEW g
  PROVE  StatsOf(act, n, g)
           \in [threadCount : Nat, mutexCount : Nat, waitEdgeCount : Nat]
<1>1. IsFiniteSet(Threads)
  BY FS_Interval, BoundsAssumption DEF Threads
<1>2. IsFiniteSet(Threads \X Threads)
  BY <1>1, FS_Product
<1>3. IsFiniteSet(act) /\ IsFiniteSet(Edges(g))
  BY <1>1, <1>2, FS_Subset DEF Edges
<1>4. Cardinality(act) \in Nat /\ Cardinality(Edges(g)) \in Nat
  BY <1>3, FS_CardinalityType
<1>5. n - 1 \in Nat
  BY BoundsAssumption
<1> QED
  BY <1>4, <1>5 DEF StatsOf

-----------------------------------------------------------------------------

(* The invariant holds before the first operation. *)
LEMMA InitEstablishesInv == SyncInit => SyncInv
<1> SUFFICES ASSUME SyncInit PROVE SyncInv
  OBVIOUS
<1>1. MainThread \in Threads /\ NoOwner \notin Threads
  BY BoundsAssumption DEF MainThread, Threads, NoOwner
<1>2. SyncTypeOK
  <2>1. syncStats \in [threadCount : Nat, mutexCount : Nat, waitEdgeCount : Nat]
    BY <1>1, StatsType, BoundsAssumption DEF SyncInit
  <2> QED
    BY <1>1, <2>1, BoundsAssumption
    DEF SyncInit, SyncTypeOK, MainThread, Threads, Mutexes
<1>3. OwnershipAgrees
  BY <1>1 DEF SyncInit, OwnershipAgrees
<1>4. FinishedThreadsLeaveNothing
  BY DEF SyncInit, FinishedThreadsLeaveNothing
<1> QED
  BY <1>2, <1>3, <1>4 DEF SyncInv

(* Facts about the state that every step below needs. *)
LEMMA IdsInRange ==
  ASSUME SyncTypeOK
  PROVE  /\ active \subseteq Threads
         /\ NoOwner \notin Threads
         /\ \A t : KnownThread(t) => t \in Threads
         /\ \A m : MutexExists(m) => m \in Mutexes
         /\ waitGraph \in WaitGraphs
  BY BoundsAssumption
  DEF SyncTypeOK, Threads, Mutexes, NoOwner, KnownThread, MutexExists, WaitGraphs

(* A step that announces a wait of one live thread for another. *)
LEMMA WaitStep ==
  ASSUME SyncInv, NEW t \in active, NEW u \in active,
         waitGraph' = WaitFor(waitGraph, t, u),
         UNCHANGED <<nextThreadId, nextMutexId, active, ownedMutexes, ownerThreadId>>,
         RecomputeSyncStats
  PROVE  SyncInv'
<1>1. /\ WaitFor(waitGraph, t, u) \in WaitGraphs
      /\ \A a \in Threads : WaitFor(waitGraph, t, u)[a]
           \subseteq (IF a = t THEN waitGraph[a] \cup {u} ELSE waitGraph[a])
  BY IdsInRange
  DEF SyncInv, WaitFor, AddWaitEdge, ClearWaitingEdgesFrom, WaitGraphs
<1>2. SyncTypeOK'
  <2>1. syncStats' \in [threadCount : Nat, mutexCount : Nat, waitEdgeCount : Nat]
    BY IdsInRange, StatsType DEF SyncInv, SyncTypeOK, RecomputeSyncStats
  <2> QED
    BY <1>1, <2>1 DEF SyncInv, SyncTypeOK, WaitGraphs
<1>3. OwnershipAgrees'
  BY DEF SyncInv, OwnershipAgrees
<1>4. FinishedThreadsLeaveNothing'
  BY <1>1, IdsInRange DEF SyncInv, FinishedThreadsLeaveNothing
<1> QED
  BY <1>2, <1>3, <1>4 DEF SyncInv

(* Every operation keeps the invariant. *)
LEMMA StepKeepsInv == SyncInv /\ [SyncNext]_syncVars => SyncInv'
<1> SUFFICES ASSUME SyncInv, [SyncNext]_syncVars PROVE SyncInv'
  OBVIOUS
<1> USE IdsInRange
<1>a. SyncTypeOK
  BY DEF SyncInv
<1>1. CASE CreateExecutionThread
  <2> USE <1>1 DEF CreateExecutionThread
  <2>1. nextThreadId \in Threads /\ nextThreadId \notin active
    BY <1>a, BoundsAssumption DEF SyncTypeOK, Threads
  <2>2. syncStats' \in [threadCount : Nat, mutexCount : Nat, waitEdgeCount : Nat]
    BY <1>a, <2>1, StatsType DEF SyncTypeOK, RecomputeSyncStats
  <2>3. SyncTypeOK'
    <3>1. nextThreadId' \in 1 .. MaxThreads /\ active' \in SUBSET (0 .. nextThreadId' - 1)
      BY <1>a, BoundsAssumption DEF SyncTypeOK
    <3> QED
      BY <1>a, <2>2, <3>1 DEF SyncTypeOK
  <2>4. OwnershipAgrees' /\ FinishedThreadsLeaveNothing'
    BY DEF SyncInv, OwnershipAgrees, FinishedThreadsLeaveNothing
  <2> QED
    BY <2>3, <2>4 DEF SyncInv
<1>2. CASE CreateMutex
  <2> USE <1>2 DEF CreateMutex
  <2>0. nextMutexId' \in 1 .. MaxMutexes + 1
    BY <1>a, BoundsAssumption DEF SyncTypeOK
  <2>1. syncStats' \in [threadCount : Nat, mutexCount : Nat, waitEdgeCount : Nat]
    BY <1>a, <2>0, StatsType DEF SyncTypeOK, RecomputeSyncStats
  <2>2. SyncTypeOK'
    BY <1>a, <2>0, <2>1 DEF SyncTypeOK
  <2>3. OwnershipAgrees' /\ FinishedThreadsLeaveNothing'
    BY DEF SyncInv, OwnershipAgrees, FinishedThreadsLeaveNothing
  <2> QED
    BY <2>2, <2>3 DEF SyncInv
<1>3. ASSUME NEW t \in Threads, NEW m \in Mutexes, TryLockAcquires(t, m)
      PROVE  SyncInv'
  <2> USE <1>3 DEF TryLockAcquires
  <2>0. t \in active
    BY DEF SyncHandleExists
  <2>1. syncStats' \in [threadCount : Nat, mutexCount : Nat, waitEdgeCount : Nat]
    BY <1>a, StatsType DEF SyncTypeOK, RecomputeSyncStats
  <2>2. SyncTypeOK'
    BY <1>a, <2>1 DEF SyncTypeOK, ClearWaitingEdgesFrom
  <2>3. OwnershipAgrees'
    BY <1>a DEF SyncInv, OwnershipAgrees, SyncTypeOK
  <2>4. FinishedThreadsLeaveNothing'
    BY <1>a, <2>0
    DEF SyncInv, FinishedThreadsLeaveNothing, SyncTypeOK, ClearWaitingEdgesFrom
  <2> QED
    BY <2>2, <2>3, <2>4 DEF SyncInv
<1>4. ASSUME NEW t \in Threads, NEW m \in Mutexes, TryLockFails(t, m)
      PROVE  SyncInv'
  <2>1. t \in active
    BY <1>4 DEF TryLockFails, SyncHandleExists
  <2>2. ownerThreadId[m] \in active
    BY <1>4, <1>a
    DEF TryLockFails, SyncInv, SyncTypeOK, OwnershipAgrees, FinishedThreadsLeaveNothing
  <2> QED
    BY <1>4, <2>1, <2>2, WaitStep DEF TryLockFails
<1>5. ASSUME NEW t \in Threads, NEW m \in Mutexes, UnlockMutex(t, m)
      PROVE  SyncInv'
  <2> USE <1>5 DEF UnlockMutex
  <2>1. syncStats' \in [threadCount : Nat, mutexCount : Nat, waitEdgeCount : Nat]
    BY <1>a, StatsType DEF SyncTypeOK, RecomputeSyncStats
  <2>2. SyncTypeOK'
    BY <1>a, <2>1 DEF SyncTypeOK, ClearWaitingEdgesFrom
  <2>3. OwnershipAgrees'
    BY <1>a DEF SyncInv, OwnershipAgrees, SyncTypeOK
  <2>4. FinishedThreadsLeaveNothing'
    BY <1>a DEF SyncInv, FinishedThreadsLeaveNothing, SyncTypeOK, ClearWaitingEdgesFrom
  <2> QED
    BY <2>2, <2>3, <2>4 DEF SyncInv
<1>6. ASSUME NEW t \in Threads, NEW u \in Threads, JoinThread(t, u)
      PROVE  SyncInv'
  BY <1>6, WaitStep DEF JoinThread, SyncHandleExists
<1>7. ASSUME NEW t \in Threads, FinishThread(t)
      PROVE  SyncInv'
  <2> USE <1>7 DEF FinishThread
  <2>1. syncStats' \in [threadCount : Nat, mutexCount : Nat, waitEdgeCount : Nat]
    BY <1>a, StatsType DEF SyncTypeOK, RecomputeSyncStats
  <2>2. SyncTypeOK'
    BY <1>a, <2>1 DEF SyncTypeOK, ClearWaitingEdgesFrom, EraseWaitEdgesTo
  <2>3. OwnershipAgrees'
    BY <1>a DEF SyncInv, OwnershipAgrees, SyncTypeOK
  <2>4. FinishedThreadsLeaveNothing'
    BY <1>a
    DEF SyncInv, FinishedThreadsLeaveNothing, SyncTypeOK, ClearWaitingEdgesFrom,
        EraseWaitEdgesTo
  <2> QED
    BY <2>2, <2>3, <2>4 DEF SyncInv
<1>8. CASE UNCHANGED syncVars
  BY <1>8
  DEF syncVars, SyncInv, SyncTypeOK, OwnershipAgrees, FinishedThreadsLeaveNothing
<1> QED
  BY <1>1, <1>2, <1>3, <1>4, <1>5, <1>6, <1>7, <1>8
  DEF SyncNext, TryLockMutex, TryLockRejected

(* Type correctness, agreement of the two ownership records and the        *)
(* cleanliness of finished threads hold in every reachable state of        *)
(* SharedRuntimeSync.cpp's operations.                                     *)
THEOREM SyncInvariance == SyncSpec => []SyncInv
  BY InitEstablishesInv, StepKeepsInv, PTL DEF SyncSpec

(* Type correctness, with the id counters ahead of every id handed out. *)
THEOREM TypeTheorem == SyncSpec => []SyncTypeOK
<1>1. SyncInv => SyncTypeOK
  BY DEF SyncInv
<1> QED
  BY <1>1, SyncInvariance, PTL

(* Agreement of ownedMutexes and ownerThreadId. *)
THEOREM OwnershipTheorem == SyncSpec => []OwnershipAgrees
<1>1. SyncInv => OwnershipAgrees
  BY DEF SyncInv
<1> QED
  BY <1>1, SyncInvariance, PTL

(* FinishThread leaves no lock and no edge behind. *)
THEOREM FinishTheorem == SyncSpec => []FinishedThreadsLeaveNothing
<1>1. SyncInv => FinishedThreadsLeaveNothing
  BY DEF SyncInv
<1> QED
  BY <1>1, SyncInvariance, PTL

(* No operation closes a cycle of the wait graph. *)
LEMMA StepKeepsAcyclic ==
  WaitGraphAcyclic /\ SyncInv /\ SyncInv' /\ [SyncNext]_syncVars => WaitGraphAcyclic'
<1> SUFFICES ASSUME WaitGraphAcyclic, SyncInv, SyncInv', [SyncNext]_syncVars
             PROVE  ~HasCycle(waitGraph')
  BY DEF WaitGraphAcyclic, AssertNoDeadlock
<1>0. ~HasCycle(waitGraph) /\ waitGraph \in WaitGraphs /\ waitGraph' \in WaitGraphs
  BY DEF WaitGraphAcyclic, AssertNoDeadlock, SyncInv, SyncTypeOK, WaitGraphs
<1>1. CASE \A t \in Threads : waitGraph'[t] \subseteq waitGraph[t]
  BY <1>0, <1>1, RemovalKeepsAcyclic
<1>2. CASE \E t \in Threads, u \in Threads : waitGraph' = WaitFor(waitGraph, t, u)
  BY <1>0, <1>2, WaitForKeepsAcyclic
<1>3. ASSUME NEW t \in Threads, NEW m \in Mutexes, TryLockFails(t, m)
      PROVE  ownerThreadId[m] \in Threads /\ waitGraph' = WaitFor(waitGraph, t, ownerThreadId[m])
  BY <1>3 DEF TryLockFails, SyncInv, SyncTypeOK
<1>4. ASSUME NEW t \in Threads, \/ waitGraph' = ClearWaitingEdgesFrom(waitGraph, t)
                                \/ FinishThread(t)
      PROVE  \A u \in Threads : waitGraph'[u] \subseteq waitGraph[u]
  BY <1>0, <1>4 DEF FinishThread, ClearWaitingEdgesFrom, EraseWaitEdgesTo, WaitGraphs
<1>5. ASSUME waitGraph' = waitGraph
      PROVE  \A u \in Threads : waitGraph'[u] \subseteq waitGraph[u]
  BY <1>5
<1> QED
  BY <1>1, <1>2, <1>3, <1>4, <1>5
  DEF SyncNext, CreateExecutionThread, CreateMutex, TryLockMutex, TryLockAcquires,
      TryLockRejected, UnlockMutex, JoinThread, syncVars

(* The wait graph stays acyclic, so AssertNoDeadlock always answers true.  *)
THEOREM AcyclicTheorem == SyncSpec => []WaitGraphAcyclic
<1>1. SyncInit => WaitGraphAcyclic
  BY DEF SyncInit, WaitGraphAcyclic, AssertNoDeadlock, HasCycle
<1> QED
  BY <1>1, StepKeepsAcyclic, SyncInvariance, PTL DEF SyncSpec
=============================================================================
