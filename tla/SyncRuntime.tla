---------------------------- MODULE SyncRuntime ----------------------------
(***************************************************************************)
(* The logical threads, mutexes and wait graph of the shared runtime       *)
(* (src/src/vm/runtime/SharedRuntimeSync.cpp).  Every public operation     *)
(* takes m_syncMutex for its whole body, so each is one atomic action.     *)
(*                                                                         *)
(* Locking never blocks: a TryLockMutex that finds the mutex taken records *)
(* a wait edge and returns false.  Thread and mutex ids are handed out by  *)
(* counters, so id i is known exactly when it is below the counter.        *)
(***************************************************************************)
EXTENDS Integers, FiniteSets, WaitGraph

CONSTANTS MaxThreads,  \* bound on the thread ids handed out, main included
          MaxMutexes   \* bound on the mutex ids handed out

ASSUME BoundsAssumption == MaxThreads \in Nat \ {0} /\ MaxMutexes \in Nat

MainThread == 0
Threads == 0 .. MaxThreads - 1
Mutexes == 1 .. MaxMutexes
NoOwner == -1   \* std::nullopt in SyncMutexState::ownerThreadId

VARIABLES
  nextThreadId,   \* m_nextThreadId
  nextMutexId,    \* m_nextMutexId
  active,         \* ids with SyncThreadState::active
  ownedMutexes,   \* SyncThreadState::ownedMutexes, per thread
  ownerThreadId,  \* SyncMutexState::ownerThreadId, per mutex
  waitGraph,      \* m_waitGraph: the threads each thread waits for
  syncStats       \* m_syncStats

syncVars == <<nextThreadId, nextMutexId, active, ownedMutexes, ownerThreadId,
              waitGraph, syncStats>>

KnownThread(t) == t \in 0 .. nextThreadId - 1
SyncHandleExists(t) == KnownThread(t) /\ t \in active
MutexExists(m) == m \in 1 .. nextMutexId - 1

-----------------------------------------------------------------------------
(* The wait graph. *)

Edges(g) == {e \in Threads \X Threads : e[2] \in g[e[1]]}

StatsOf(act, nextMutex, g) ==
  [threadCount   |-> Cardinality(act),
   mutexCount    |-> nextMutex - 1,
   waitEdgeCount |-> Cardinality(Edges(g))]

RecomputeSyncStats ==
  syncStats' = StatsOf(active', nextMutexId', waitGraph')

ClearWaitingEdgesFrom(g, t) == [g EXCEPT ![t] = {}]
AddWaitEdge(g, from, to) == [g EXCEPT ![from] = @ \cup {to}]
EraseWaitEdgesTo(g, t) == [u \in Threads |-> g[u] \ {t}]

(* The search itself is the loop of WaitGraphSearch. *)
WouldIntroduceCycle(g, from, to) == from = to \/ from \in ReachableFrom(g, to)

HasCycle(g) == \E t \in Threads : \E u \in g[t] : WouldIntroduceCycle(g, t, u)

(* Faulty variant: the edge is kept whatever it closes. *)
WaitForUnchecked(g, t, u) == AddWaitEdge(g, t, u)

(* The graph after thread t has announced that it waits for thread u: the  *)
(* new edge, or none from t at all when the edge would close a cycle.      *)
WaitFor(g, t, u) ==
  LET h == AddWaitEdge(g, t, u)
  IN IF WouldIntroduceCycle(h, t, u) THEN ClearWaitingEdgesFrom(h, t) ELSE h

-----------------------------------------------------------------------------
(* Queries. *)

WouldDeadlockOnMutex(t, m) ==
  /\ SyncHandleExists(t)
  /\ MutexExists(m)
  /\ ownerThreadId[m] # NoOwner
  /\ WouldIntroduceCycle(waitGraph, t, ownerThreadId[m])

MutexOwner(m) == IF MutexExists(m) THEN ownerThreadId[m] ELSE NoOwner

AssertNoDeadlock == ~HasCycle(waitGraph)

-----------------------------------------------------------------------------
(* Operations. *)

SyncInit ==
  /\ nextThreadId = 1
  /\ nextMutexId = 1
  /\ active = {MainThread}
  /\ ownedMutexes = [t \in Threads |-> {}]
  /\ ownerThreadId = [m \in Mutexes |-> NoOwner]
  /\ waitGraph = [t \in Threads |-> {}]
  /\ syncStats = StatsOf(active, nextMutexId, waitGraph)

CreateExecutionThread ==
  /\ nextThreadId < MaxThreads
  /\ nextThreadId' = nextThreadId + 1
  /\ active' = active \cup {nextThreadId}
  /\ UNCHANGED <<nextMutexId, ownedMutexes, ownerThreadId, waitGraph>>
  /\ RecomputeSyncStats

CreateMutex ==
  /\ nextMutexId <= MaxMutexes
  /\ nextMutexId' = nextMutexId + 1
  /\ UNCHANGED <<nextThreadId, active, ownedMutexes, ownerThreadId, waitGraph>>
  /\ RecomputeSyncStats

(* TryLockMutex returns true: the mutex is free and t takes it. *)
TryLockAcquires(t, m) ==
  /\ SyncHandleExists(t) /\ MutexExists(m)
  /\ ownerThreadId[m] = NoOwner
  /\ ownerThreadId' = [ownerThreadId EXCEPT ![m] = t]
  /\ ownedMutexes' = [ownedMutexes EXCEPT ![t] = @ \cup {m}]
  /\ waitGraph' = ClearWaitingEdgesFrom(waitGraph, t)
  /\ UNCHANGED <<nextThreadId, nextMutexId, active>>
  /\ RecomputeSyncStats

(* TryLockMutex returns false: the mutex has an owner, t itself included. *)
TryLockFails(t, m) ==
  /\ SyncHandleExists(t) /\ MutexExists(m)
  /\ ownerThreadId[m] # NoOwner
  /\ waitGraph' = WaitFor(waitGraph, t, ownerThreadId[m])
  /\ UNCHANGED <<nextThreadId, nextMutexId, active, ownedMutexes, ownerThreadId>>
  /\ RecomputeSyncStats

(* A handle the runtime does not know as live: false, and nothing changes. *)
TryLockRejected(t, m) ==
  /\ ~(SyncHandleExists(t) /\ MutexExists(m))
  /\ UNCHANGED syncVars

TryLockMutex(t, m) ==
  TryLockAcquires(t, m) \/ TryLockFails(t, m) \/ TryLockRejected(t, m)

(* Faulty variant: the thread still lists the mutex it gave up. *)
UnlockKeepsOwned(t, m) ==
  /\ SyncHandleExists(t) /\ MutexExists(m) /\ ownerThreadId[m] = t
  /\ ownerThreadId' = [ownerThreadId EXCEPT ![m] = NoOwner]
  /\ waitGraph' = ClearWaitingEdgesFrom(waitGraph, t)
  /\ UNCHANGED <<nextThreadId, nextMutexId, active, ownedMutexes>>
  /\ RecomputeSyncStats

UnlockMutex(t, m) ==
  /\ SyncHandleExists(t) /\ MutexExists(m) /\ ownerThreadId[m] = t
  /\ ownerThreadId' = [ownerThreadId EXCEPT ![m] = NoOwner]
  /\ ownedMutexes' = [ownedMutexes EXCEPT ![t] = @ \ {m}]
  /\ waitGraph' = ClearWaitingEdgesFrom(waitGraph, t)
  /\ UNCHANGED <<nextThreadId, nextMutexId, active>>
  /\ RecomputeSyncStats

(* Faulty variant: the target need not be active any more. *)
JoinOfAnyKnownThread(waiting, target) ==
  /\ SyncHandleExists(waiting) /\ KnownThread(target)
  /\ waitGraph' = WaitFor(waitGraph, waiting, target)
  /\ UNCHANGED <<nextThreadId, nextMutexId, active, ownedMutexes, ownerThreadId>>
  /\ RecomputeSyncStats

(* Registers a wait of one thread for the end of another.  It returns true *)
(* when the edge was kept, false (with no edge left) when it closed a      *)
(* cycle, and does nothing for a handle that is not live.                  *)
JoinThread(waiting, target) ==
  /\ SyncHandleExists(waiting) /\ SyncHandleExists(target)
  /\ waitGraph' = WaitFor(waitGraph, waiting, target)
  /\ UNCHANGED <<nextThreadId, nextMutexId, active, ownedMutexes, ownerThreadId>>
  /\ RecomputeSyncStats

(* Faulty variant: the mutexes of the thread stay locked. *)
FinishThreadKeepsMutexes(t) ==
  /\ KnownThread(t)
  /\ active' = active \ {t}
  /\ ownedMutexes' = [ownedMutexes EXCEPT ![t] = {}]
  /\ waitGraph' = EraseWaitEdgesTo(ClearWaitingEdgesFrom(waitGraph, t), t)
  /\ UNCHANGED <<nextThreadId, nextMutexId, ownerThreadId>>
  /\ RecomputeSyncStats

FinishThread(t) ==
  /\ KnownThread(t)
  /\ active' = active \ {t}
  /\ ownerThreadId' = [m \in Mutexes |->
       IF m \in ownedMutexes[t] THEN NoOwner ELSE ownerThreadId[m]]
  /\ ownedMutexes' = [ownedMutexes EXCEPT ![t] = {}]
  /\ waitGraph' = EraseWaitEdgesTo(ClearWaitingEdgesFrom(waitGraph, t), t)
  /\ UNCHANGED <<nextThreadId, nextMutexId>>
  /\ RecomputeSyncStats

-----------------------------------------------------------------------------
(* sync.lock, sync.unlock, sync.join and sync.finish take thread handles   *)
(* as arguments, so any caller may act for any thread.                     *)

SyncNext ==
  \/ CreateExecutionThread
  \/ CreateMutex
  \/ \E t \in Threads, m \in Mutexes : TryLockMutex(t, m)
  \/ \E t \in Threads, m \in Mutexes : UnlockMutex(t, m)
  \/ \E t \in Threads, u \in Threads : JoinThread(t, u)
  \/ \E t \in Threads : FinishThread(t)

SyncSpec == SyncInit /\ [][SyncNext]_syncVars

-----------------------------------------------------------------------------
(* Properties. *)

(* Every variable has its type, and only known ids are ever in use. *)
SyncTypeOK ==
  /\ nextThreadId \in 1 .. MaxThreads
  /\ nextMutexId \in 1 .. MaxMutexes + 1
  /\ active \in SUBSET (0 .. nextThreadId - 1)
  /\ ownedMutexes \in [Threads -> SUBSET Mutexes]
  /\ ownerThreadId \in [Mutexes -> Threads \cup {NoOwner}]
  /\ waitGraph \in [Threads -> SUBSET Threads]
  /\ syncStats \in [threadCount : Nat, mutexCount : Nat, waitEdgeCount : Nat]

(* The wait graph never holds a cycle, whatever the order of lock attempts *)
(* and joins: assert_no_deadlock (AssertNoDeadlock) can never answer false.*)
WaitGraphAcyclic == AssertNoDeadlock

(* The two records of who holds what agree: a thread's ownedMutexes are    *)
(* exactly the mutexes whose ownerThreadId is that thread, so FinishThread *)
(* releases all of them and nobody else's.                                 *)
OwnershipAgrees ==
  \A t \in Threads, m \in Mutexes : m \in ownedMutexes[t] <=> ownerThreadId[m] = t

(* Only live threads hold mutexes or take part in waiting: FinishThread    *)
(* leaves neither a lock nobody can release nor an edge nobody can remove. *)
FinishedThreadsLeaveNothing ==
  \A t \in Threads \ active :
    /\ ownedMutexes[t] = {}
    /\ waitGraph[t] = {}
    /\ \A u \in Threads : t \notin waitGraph[u]
=============================================================================
