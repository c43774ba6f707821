---------------------------- MODULE Transactions ----------------------------
(***************************************************************************)
(* The transactions of ExecutionContext: BEGIN_TRANSACTION, buffered       *)
(* writes, END_TRANSACTION and the unwinding on return or error            *)
(* (ExecutionContextTransactions.cpp, ExecutionContextCore.cpp), on top of *)
(* the lock calls of ExecutionContextSync.cpp, which check and then act in *)
(* several separately locked calls of SyncRuntime.                         *)
(*                                                                         *)
(* One context per logical thread.  A context touches a shared location    *)
(* only inside a transaction that holds its mutex, the discipline that the *)
(* transaction(shared x) statement stands for.                             *)
(***************************************************************************)
EXTENDS SyncRuntime, Sequences

CONSTANTS
  Cells,     \* globals and instance fields: buffered key by key
  Arrays,    \* arrays: buffered as whole vectors
  Values,
  GuardOf,   \* GuardOf[x]: the mutex that protects location x
  MaxLen,    \* bound on the length of an array
  Programs   \* what programs do: the locations they share, how deep each
             \* context nests, and whether a nested transaction writes an
             \* array that an enclosing one has written

Contexts == Threads

ASSUME TransactionsAssumption ==
  /\ GuardOf \in [Cells \cup Arrays -> Mutexes]
  /\ Cells \cap Arrays = {}
  /\ MaxLen \in Nat
  /\ Programs \subseteq [cells : SUBSET Cells, arrays : SUBSET Arrays,
                          depth : [Contexts -> Nat], rewrites : BOOLEAN]

NoMap == [x \in {} |-> 0]

VARIABLES
  program,   \* the member of Programs that is run
  cells,     \* m_globals / instance->fields
  arrays,    \* array->elements
  txns,      \* m_activeTransactions, per context
  pc,        \* what the context is doing
  request,   \* requestedMutexIds of a BeginTransaction in progress
  acquired,  \* mutexes taken by that call, or still to be released
  cur,       \* the transaction popped by EndTransaction or UnwindTransactions
  base,      \* the depth an unwinding goes down to
  ending,    \* does the unwinding end the program: "no", by "return", by "fail"
  error      \* m_errorMessage

heapVars == <<program, cells, arrays>>
localVars == <<request, acquired, cur, base, ending>>
vars == <<syncVars, heapVars, txns, pc, localVars, error>>

Top(s) == s[Len(s)]
Pop(s) == SubSeq(s, 1, Len(s) - 1)
SetTop(s, e) == [s EXCEPT ![Len(s)] = e]
Elems(s) == {s[i] : i \in 1 .. Len(s)}

(* Map updates: g wins over f (operator[]), and f keeps what it has        *)
(* (try_emplace).                                                          *)
Override(f, g) ==
  [x \in DOMAIN f \cup DOMAIN g |-> IF x \in DOMAIN g THEN g[x] ELSE f[x]]
TryEmplace(f, g) == Override(g, f)
Put(f, x, v) == [y \in DOMAIN f \cup {x} |-> IF y = x THEN v ELSE f[y]]
Without(f, x) == [y \in DOMAIN f \ {x} |-> f[y]]

NoTxn == [mutexIds |-> {}, acquiredMutexIds |-> <<>>,
          priorCells |-> NoMap, pendingCells |-> NoMap,
          priorArrays |-> NoMap, pendingArrays |-> NoMap]

HeldMutexIds(c) == UNION {txns[c][i].mutexIds : i \in 1 .. Len(txns[c])}
Guards(c, x) == GuardOf[x] \in HeldMutexIds(c)

(* The state of a runtime in which all threads and mutexes were created.   *)
Init ==
  /\ nextThreadId = MaxThreads
  /\ nextMutexId = MaxMutexes + 1
  /\ active = Threads
  /\ ownedMutexes = [t \in Threads |-> {}]
  /\ ownerThreadId = [m \in Mutexes |-> NoOwner]
  /\ waitGraph = [t \in Threads |-> {}]
  /\ syncStats = StatsOf(active, nextMutexId, waitGraph)
  /\ program \in Programs
  /\ \E v \in Values : /\ cells = [x \in program.cells |-> v]
                       /\ arrays = [a \in program.arrays |-> <<v>>]
  /\ txns = [c \in Contexts |-> <<>>]
  /\ pc = [c \in Contexts |-> "run"]
  /\ request = [c \in Contexts |-> {}]
  /\ acquired = [c \in Contexts |-> <<>>]
  /\ cur = [c \in Contexts |-> NoTxn]
  /\ base = [c \in Contexts |-> 0]
  /\ ending = [c \in Contexts |-> "no"]
  /\ error = [c \in Contexts |-> "none"]

Goto(c, l) == pc' = [pc EXCEPT ![c] = l]

(* RaiseError keeps the first message. *)
RaiseError(c, e) == error' = [error EXCEPT ![c] = IF @ = "none" THEN e ELSE @]

-----------------------------------------------------------------------------
(* BeginTransaction. *)

(* The requested mutexes that no enclosing transaction holds, still to be  *)
(* locked; they are taken in ascending order of their ids.                 *)
Remaining(c) == (request[c] \ HeldMutexIds(c)) \ Elems(acquired[c])
NextMutex(c) == CHOOSE m \in Remaining(c) : \A n \in Remaining(c) : m <= n

BeginTransaction(c, ms) ==
  /\ pc[c] = "run"
  /\ Len(txns[c]) < program.depth[c]
  /\ request' = [request EXCEPT ![c] = ms]
  /\ acquired' = [acquired EXCEPT ![c] = <<>>]
  /\ Goto(c, "lock")
  /\ UNCHANGED <<syncVars, heapVars, txns, cur, base, ending, error>>

(* ExecutionContext::TryLockMutex: thread and mutex are known; who owns it?*)
(* (The context itself only after a sync.lock of its own.)                 *)
LockReadOwner(c) ==
  /\ pc[c] = "lock"
  /\ Remaining(c) # {}
  /\ LET owner == MutexOwner(NextMutex(c)) IN
       IF owner = c
         THEN RaiseError(c, "recursive") /\ Goto(c, "giveUp")
         ELSE /\ Goto(c, IF owner = NoOwner THEN "tryLock" ELSE "wouldDeadlock")
              /\ UNCHANGED error
  /\ UNCHANGED <<syncVars, heapVars, txns, localVars>>

LockWouldDeadlock(c) ==
  /\ pc[c] = "wouldDeadlock"
  /\ IF WouldDeadlockOnMutex(c, NextMutex(c))
       THEN RaiseError(c, "deadlock") /\ Goto(c, "giveUp")
       ELSE Goto(c, "tryLock") /\ UNCHANGED error
  /\ UNCHANGED <<syncVars, heapVars, txns, localVars>>

(* Faulty variant: a lock that waits for its mutex. *)
LockTryBlocking(c) ==
  /\ pc[c] = "tryLock"
  /\ TryLockAcquires(c, NextMutex(c))
  /\ acquired' = [acquired EXCEPT ![c] = Append(@, NextMutex(c))]
  /\ Goto(c, "lock")
  /\ UNCHANGED <<heapVars, txns, request, cur, base, ending, error>>

LockTry(c) ==
  /\ pc[c] = "tryLock"
  /\ \/ /\ TryLockAcquires(c, NextMutex(c))
        /\ acquired' = [acquired EXCEPT ![c] = Append(@, NextMutex(c))]
        /\ Goto(c, "lock")
     \/ /\ TryLockFails(c, NextMutex(c))
        /\ UNCHANGED acquired
        /\ Goto(c, "recheck")
  /\ UNCHANGED <<heapVars, txns, request, cur, base, ending, error>>

(* Contention is silent; a mutex that was released meanwhile is an error. *)
LockRecheck(c) ==
  /\ pc[c] = "recheck"
  /\ IF MutexOwner(NextMutex(c)) = NoOwner THEN RaiseError(c, "lockFailed")
                                           ELSE UNCHANGED error
  /\ Goto(c, "giveUp")
  /\ UNCHANGED <<syncVars, heapVars, txns, localVars>>

(* Release what the call acquired, last first, then return false: the VM   *)
(* stops with a runtime error and unwinds all transactions.                *)
GiveUp(c) ==
  /\ pc[c] = "giveUp"
  /\ \/ /\ acquired[c] # <<>>
        /\ UnlockMutex(c, Top(acquired[c]))
        /\ acquired' = [acquired EXCEPT ![c] = Pop(@)]
        /\ UNCHANGED <<pc, base, ending>>
     \/ /\ acquired[c] = <<>>
        /\ base' = [base EXCEPT ![c] = 0]
        /\ ending' = [ending EXCEPT ![c] = "fail"]
        /\ Goto(c, "unwind")
        /\ UNCHANGED <<syncVars, acquired>>
  /\ UNCHANGED <<heapVars, txns, request, cur, error>>

Begun(c) ==
  /\ pc[c] = "lock"
  /\ Remaining(c) = {}
  /\ txns' = [txns EXCEPT ![c] = Append(@,
       [NoTxn EXCEPT !.mutexIds = request[c], !.acquiredMutexIds = acquired[c]])]
  /\ request' = [request EXCEPT ![c] = {}]
  /\ acquired' = [acquired EXCEPT ![c] = <<>>]
  /\ Goto(c, "run")
  /\ UNCHANGED <<syncVars, heapVars, cur, base, ending, error>>

-----------------------------------------------------------------------------
(* Buffered writes, all into the innermost transaction. *)

(* Remember the committed value once, buffer the new one. *)
BufferCell(t, x, committed, v) ==
  [t EXCEPT !.priorCells = TryEmplace(@, Put(NoMap, x, committed)),
            !.pendingCells = Put(@, x, v)]
BufferVector(t, a, committed, v) ==
  [t EXCEPT !.priorArrays = TryEmplace(@, Put(NoMap, a, committed)),
            !.pendingArrays = Put(@, a, v)]

(* SetGlobal, SetInstanceField. *)
SetCell(c, x, v) ==
  /\ pc[c] = "run"
  /\ txns[c] # <<>>
  /\ Guards(c, x)
  /\ txns' = [txns EXCEPT ![c] = SetTop(@, BufferCell(Top(@), x, cells[x], v))]
  /\ UNCHANGED <<syncVars, heapVars, pc, localVars, error>>

(* The vector that an array write of context c starts from. *)
PendingArray(c, a) ==
  LET t == Top(txns[c])
  IN IF a \in DOMAIN t.pendingArrays THEN t.pendingArrays[a] ELSE arrays[a]

(* An array write of the program. *)
WritesArray(c, a) ==
  /\ pc[c] = "run" /\ txns[c] # <<>> /\ Guards(c, a)
  /\ program.rewrites \/ \A t \in Elems(Pop(txns[c])) : a \notin DOMAIN t.pendingArrays

(* SetArrayElement, PushArrayElement and PopArrayElement all leave the     *)
(* updated vector `to` in the innermost transaction.                       *)
BufferArray(c, a, to) ==
  /\ txns' = [txns EXCEPT ![c] = SetTop(@, BufferVector(Top(@), a, arrays[a], to))]
  /\ UNCHANGED <<syncVars, heapVars, pc, localVars, error>>

SetArrayElement(c, a, i, v) ==
  /\ WritesArray(c, a)
  /\ i \in 1 .. Len(PendingArray(c, a))
  /\ BufferArray(c, a, [PendingArray(c, a) EXCEPT ![i] = v])

PushArrayElement(c, a, v) ==
  /\ WritesArray(c, a)
  /\ Len(PendingArray(c, a)) < MaxLen
  /\ BufferArray(c, a, Append(PendingArray(c, a), v))

PopArrayElement(c, a) ==
  /\ WritesArray(c, a)
  /\ PendingArray(c, a) # <<>>
  /\ BufferArray(c, a, Pop(PendingArray(c, a)))

-----------------------------------------------------------------------------
(* EndTransaction. *)

(* Faulty variant: the buffered cells of the child are not handed over     *)
(* where the parent has a value of its own.                                *)
MergeKeepsParent(parent, t) ==
  [mutexIds         |-> parent.mutexIds \cup t.mutexIds,
   acquiredMutexIds |-> parent.acquiredMutexIds \o t.acquiredMutexIds,
   priorCells       |-> TryEmplace(parent.priorCells, t.priorCells),
   pendingCells     |-> TryEmplace(parent.pendingCells, t.pendingCells),
   priorArrays      |-> TryEmplace(parent.priorArrays, t.priorArrays),
   pendingArrays    |-> TryEmplace(parent.pendingArrays, t.pendingArrays)]

(* Faulty variant: the locks of the child are forgotten. *)
MergeDropsLocks(parent, t) ==
  [mutexIds         |-> parent.mutexIds \cup t.mutexIds,
   acquiredMutexIds |-> parent.acquiredMutexIds,
   priorCells       |-> TryEmplace(parent.priorCells, t.priorCells),
   pendingCells     |-> Override(parent.pendingCells, t.pendingCells),
   priorArrays      |-> TryEmplace(parent.priorArrays, t.priorArrays),
   pendingArrays    |-> Override(parent.pendingArrays, t.pendingArrays)]

(* A nested commit hands locks, prior values and buffered writes to the    *)
(* parent.  (A mutex is acquired at one level only, so no id repeats.)     *)
MergeInto(parent, t) ==
  [mutexIds         |-> parent.mutexIds \cup t.mutexIds,
   acquiredMutexIds |-> parent.acquiredMutexIds \o t.acquiredMutexIds,
   priorCells       |-> TryEmplace(parent.priorCells, t.priorCells),
   pendingCells     |-> Override(parent.pendingCells, t.pendingCells),
   priorArrays      |-> TryEmplace(parent.priorArrays, t.priorArrays),
   pendingArrays    |-> Override(parent.pendingArrays, t.pendingArrays)]

EndNested(c) ==
  /\ pc[c] = "run"
  /\ Len(txns[c]) > 1
  /\ LET rest == Pop(txns[c])
     IN txns' = [txns EXCEPT ![c] = SetTop(rest, MergeInto(Top(rest), Top(@)))]
  /\ UNCHANGED <<syncVars, heapVars, pc, localVars, error>>

EndOutermost(c) ==
  /\ pc[c] = "run"
  /\ Len(txns[c]) = 1
  /\ cur' = [cur EXCEPT ![c] = Top(txns[c])]
  /\ txns' = [txns EXCEPT ![c] = <<>>]
  /\ Goto(c, "apply")
  /\ UNCHANGED <<syncVars, heapVars, request, acquired, base, ending, error>>

(* The buffered values are written one at a time: cells, then arrays. *)
ApplyCell(c, x) ==
  /\ pc[c] = "apply"
  /\ x \in DOMAIN cur[c].pendingCells
  /\ cells' = [cells EXCEPT ![x] = cur[c].pendingCells[x]]
  /\ cur' = [cur EXCEPT ![c].pendingCells = Without(@, x)]
  /\ UNCHANGED <<syncVars, program, arrays, txns, pc, request, acquired, base, ending, error>>

ApplyArray(c, a) ==
  /\ pc[c] = "apply"
  /\ cur[c].pendingCells = NoMap
  /\ a \in DOMAIN cur[c].pendingArrays
  /\ arrays' = [arrays EXCEPT ![a] = cur[c].pendingArrays[a]]
  /\ cur' = [cur EXCEPT ![c].pendingArrays = Without(@, a)]
  /\ UNCHANGED <<syncVars, program, cells, txns, pc, request, acquired, base, ending, error>>

(* Then the mutexes are released, last acquired first. *)
ReleaseCommitted(c) ==
  /\ pc[c] = "apply"
  /\ cur[c].pendingCells = NoMap /\ cur[c].pendingArrays = NoMap
  /\ \/ /\ cur[c].acquiredMutexIds # <<>>
        /\ UnlockMutex(c, Top(cur[c].acquiredMutexIds))
        /\ cur' = [cur EXCEPT ![c].acquiredMutexIds = Pop(@)]
        /\ UNCHANGED pc
     \/ /\ cur[c].acquiredMutexIds = <<>>
        /\ cur' = [cur EXCEPT ![c] = NoTxn]
        /\ Goto(c, "run")
        /\ UNCHANGED syncVars
  /\ UNCHANGED <<heapVars, txns, request, acquired, base, ending, error>>

-----------------------------------------------------------------------------
(* UnwindTransactions. *)

(* HandleReturn: a frame that returns rolls back the transactions begun in *)
(* it; the outermost frame ends the program.                               *)
Return(c, depth, ends) ==
  /\ pc[c] = "run"
  /\ depth \in 0 .. Len(txns[c])
  /\ ends = "return" => depth = 0
  /\ base' = [base EXCEPT ![c] = depth]
  /\ ending' = [ending EXCEPT ![c] = ends]
  /\ Goto(c, "unwind")
  /\ UNCHANGED <<syncVars, heapVars, txns, request, acquired, cur, error>>

(* Any other runtime error of the program (VirtualMachine::Interpret and   *)
(* InvokeCallable unwind everything).                                      *)
Fail(c) ==
  /\ pc[c] = "run"
  /\ RaiseError(c, "runtime")
  /\ base' = [base EXCEPT ![c] = 0]
  /\ ending' = [ending EXCEPT ![c] = "fail"]
  /\ Goto(c, "unwind")
  /\ UNCHANGED <<syncVars, heapVars, txns, request, acquired, cur>>

UnwindPop(c) ==
  /\ pc[c] = "unwind"
  /\ Len(txns[c]) > base[c]
  /\ cur' = [cur EXCEPT ![c] = Top(txns[c])]
  /\ txns' = [txns EXCEPT ![c] = Pop(@)]
  /\ Goto(c, "restore")
  /\ UNCHANGED <<syncVars, heapVars, request, acquired, base, ending, error>>

RestoreArray(c, a) ==
  /\ pc[c] = "restore"
  /\ a \in DOMAIN cur[c].priorArrays
  /\ arrays' = [arrays EXCEPT ![a] = cur[c].priorArrays[a]]
  /\ cur' = [cur EXCEPT ![c].priorArrays = Without(@, a)]
  /\ UNCHANGED <<syncVars, program, cells, txns, pc, request, acquired, base, ending, error>>

RestoreCell(c, x) ==
  /\ pc[c] = "restore"
  /\ cur[c].priorArrays = NoMap
  /\ x \in DOMAIN cur[c].priorCells
  /\ cells' = [cells EXCEPT ![x] = cur[c].priorCells[x]]
  /\ cur' = [cur EXCEPT ![c].priorCells = Without(@, x)]
  /\ UNCHANGED <<syncVars, program, arrays, txns, pc, request, acquired, base, ending, error>>

ReleaseUnwound(c) ==
  /\ pc[c] = "restore"
  /\ cur[c].priorCells = NoMap /\ cur[c].priorArrays = NoMap
  /\ \/ /\ cur[c].acquiredMutexIds # <<>>
        /\ UnlockMutex(c, Top(cur[c].acquiredMutexIds))
        /\ cur' = [cur EXCEPT ![c].acquiredMutexIds = Pop(@)]
        /\ UNCHANGED pc
     \/ /\ cur[c].acquiredMutexIds = <<>>
        /\ cur' = [cur EXCEPT ![c] = NoTxn]
        /\ Goto(c, "unwind")
        /\ UNCHANGED syncVars
  /\ UNCHANGED <<heapVars, txns, request, acquired, base, ending, error>>

(* The unwinding is over.  A program that ended destroys its context,      *)
(* which finishes its thread unless it is the main one.                    *)
Unwound(c) ==
  /\ pc[c] = "unwind"
  /\ Len(txns[c]) <= base[c]
  /\ \/ ending[c] = "no" /\ Goto(c, "run") /\ UNCHANGED syncVars
     \/ ending[c] # "no" /\ c # MainThread /\ Goto(c, "done") /\ FinishThread(c)
     \/ ending[c] # "no" /\ c = MainThread /\ Goto(c, "done") /\ UNCHANGED syncVars
  /\ base' = [base EXCEPT ![c] = 0]
  /\ request' = [request EXCEPT ![c] = {}]
  /\ UNCHANGED <<heapVars, txns, acquired, cur, ending, error>>

-----------------------------------------------------------------------------

(* The program decides to begin, write, commit, return or fail; the rest   *)
(* are the steps inside these operations.                                  *)
Work(c) ==
  \/ \E ms \in (SUBSET Mutexes) \ {{}} : BeginTransaction(c, ms)
  \/ \E x \in program.cells, v \in Values : SetCell(c, x, v)
  \/ \E a \in program.arrays, i \in 1 .. MaxLen, v \in Values : SetArrayElement(c, a, i, v)
  \/ \E a \in program.arrays, v \in Values : PushArrayElement(c, a, v)
  \/ \E a \in program.arrays : PopArrayElement(c, a)
  \/ EndNested(c)
  \/ EndOutermost(c)
  \/ \E depth \in 0 .. program.depth[c], ends \in {"no", "return"} : Return(c, depth, ends)
  \/ Fail(c)

Step(c) ==
  \/ LockReadOwner(c) \/ LockWouldDeadlock(c) \/ LockTry(c) \/ LockRecheck(c)
  \/ GiveUp(c) \/ Begun(c)
  \/ \E x \in program.cells : ApplyCell(c, x) \/ RestoreCell(c, x)
  \/ \E a \in program.arrays : ApplyArray(c, a) \/ RestoreArray(c, a)
  \/ ReleaseCommitted(c) \/ UnwindPop(c) \/ ReleaseUnwound(c) \/ Unwound(c)

Next == \E c \in Contexts : Work(c) \/ Step(c)

Spec == Init /\ [][Next]_vars

-----------------------------------------------------------------------------
(* Properties. *)

(* Variables have their types; a buffered write always comes with the      *)
(* prior value that a rollback needs, and the locals of an operation are   *)
(* empty outside of one.                                                   *)
TxnTypeOK ==
  /\ SyncTypeOK
  /\ cells \in [program.cells -> Values]
  /\ arrays \in [program.arrays -> Seq(Values)]
  /\ pc \in [Contexts -> {"run", "lock", "wouldDeadlock", "tryLock", "recheck",
                          "giveUp", "apply", "unwind", "restore", "done"}]
  /\ \A c \in Contexts :
       /\ Len(txns[c]) <= program.depth[c]
       /\ \A t \in Elems(txns[c]) : /\ DOMAIN t.pendingCells = DOMAIN t.priorCells
                                   /\ DOMAIN t.pendingArrays = DOMAIN t.priorArrays
       /\ pc[c] \in {"run", "done"} => cur[c] = NoTxn /\ acquired[c] = <<>>

(* The mutexes that the transactions of a stack have acquired. *)
TxnLocks(ts) == UNION {Elems(ts[i].acquiredMutexIds) : i \in 1 .. Len(ts)}

(* A context owns exactly the mutexes its transactions and the operation   *)
(* in progress have acquired, so that none stays locked after a commit, a  *)
(* rollback, a begin that failed half way, or the end of the program; and  *)
(* every mutex that some transaction of its stack names is one it owns.    *)
LocksFollowTransactions ==
  \A c \in Contexts :
    /\ ownedMutexes[c] = TxnLocks(txns[c]) \cup Elems(acquired[c])
                            \cup Elems(cur[c].acquiredMutexIds)
    /\ HeldMutexIds(c) \subseteq ownedMutexes[c]

(* The locations a commit of context c has still to write, and the shared  *)
(* value of x once the commits that have begun are completed.              *)
LateKeys(c) ==
  IF pc[c] = "apply" THEN DOMAIN cur[c].pendingCells \cup DOMAIN cur[c].pendingArrays
                     ELSE {}
Late(x) == {c \in Contexts : x \in LateKeys(c)}
OneOf(S) == CHOOSE e \in S : TRUE

Pending(t, x) == IF x \in Cells THEN t.pendingCells ELSE t.pendingArrays

Committed(x) ==
  LET late == Late(x)
  IN IF late # {} THEN Pending(cur[OneOf(late)], x)[x]
     ELSE IF x \in Cells THEN cells[x] ELSE arrays[x]

(* The writes of x that the levels of the stack ts up to i have buffered,  *)
(* and what level i sees of x when the committed value is v: the latest.   *)
Written(ts, i, x) ==
  [j \in {k \in 1 .. i : x \in DOMAIN Pending(ts[k], x)} |-> Pending(ts[j], x)[x]]
Latest(writes) ==
  writes[CHOOSE j \in DOMAIN writes : \A k \in DOMAIN writes : k <= j]
Seen(v, ts, i, x) ==
  LET writes == Written(ts, i, x)
  IN IF DOMAIN writes = {} THEN v ELSE Latest(writes)

Below(ts, i) == UNION {ts[j].mutexIds : j \in 1 .. i}

(* The abstract state: the data with all commits completed, and the view   *)
(* of every level on the locations it has locked.                          *)
CommittedData == [x \in program.cells \cup program.arrays |-> Committed(x)]
LevelOf(data, ts, i) ==
  [held |-> ts[i].mutexIds,
   view |-> [x \in {y \in DOMAIN data : GuardOf[y] \in Below(ts, i)} |->
               Seen(data[x], ts, i, x)]]
LevelsOf(data, ts) == [i \in 1 .. Len(ts) |-> LevelOf(data, ts, i)]
Levels == LET data == CommittedData IN [c \in Contexts |-> LevelsOf(data, txns[c])]

Abs == INSTANCE NestedTransactions WITH data <- CommittedData, levels <- Levels

(* Buffering, merging and unwinding implement nested transactions: commits *)
(* take effect whole although values are written one at a time, rollbacks  *)
(* leave no trace although prior values are written back, reads see the    *)
(* writes of all enclosing transactions.                                   *)
ImplementsNestedTransactions == Abs!AbsSpec

(* A context inside an operation always has a next step: a transaction is  *)
(* never blocked by another one, not even when nested transactions lock in *)
(* an order that the sorting of ids does not cover.                        *)
NeverBlocked == \A c \in Contexts : pc[c] \notin {"run", "done"} => ENABLED Step(c)
=============================================================================
