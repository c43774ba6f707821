# Verification of Aura

Aura is a compiled language: a front end (lexer, SLR parser, semantic analysis,
bytecode generator) and a virtual machine with native modules.  This project
holds TLA+ models of two halves of it: the shared runtime, whose correctness
depends on order and failure, and the way of a program from its syntax tree
through the analyzers and the generator to the machine; with the TLC
configurations that check them and TLAPS proofs for the runtime.  Paths are
relative to the repository, where `src/vm` means `src/src/vm`.

## 1. Inventory

| Component (source) | State | Operations | Interacts with |
|---|---|---|---|
| Logical threads, mutexes, wait graph (`vm/runtime/SharedRuntimeSync.cpp`) | thread handles with their mutexes, owner of each mutex, wait edges, statistics | create, try-lock, unlock, join, finish, assert-no-deadlock | transactions lock through it |
| Transactions (`ExecutionContextTransactions.cpp`, `ExecutionContextSync.cpp`) | stack of active transactions, each with buffered writes, prior values and mutexes | begin, write, nested and outermost commit, unwind | mutexes; frames unwind them |
| Interpreter, frames, effects, iterators (`VirtualMachineCore.cpp`, `VirtualMachineCallsAndActors.cpp`, `ExecutionContextFrames.cpp`, `ExecutionContextEffects.cpp`) | value stack, frames, handler stack, error message, nested C++ calls of `Run` | instructions, call, return, effect, iterator callback, `InvokeCallable` | natives call back: `with_tx`, HTTP routes, consumers, tasks, actors |
| Channels (`SharedRuntimeChannels.cpp`) | queue or rendezvous slot, closed flag, two condition variables | send, recv, close | tasks |
| Cancellation contexts (`SharedRuntimeChannels.cpp`) | tree of contexts, flags, signal flag | background, shutdown, with_cancel, cancel, is_cancelled | error groups, HTTP server |
| Tasks (`SharedRuntimeTasks.cpp`, `TaskModule.cpp`) | completed, error, joined, cancelled | spawn, join, join_result, cancel | each runs a virtual machine |
| Task groups (`stdlib/std/concurrent/*.aura`) | list of tasks, first error, context | spawn, wait | tasks, contexts |
| Actors (`VirtualMachineCallsAndActors.cpp`, `Value.h`) | mailbox, pending queries, failures, worker | send, query, worker loop | one machine per item |
| HTTP server (`vm/runtime/stdlib/http`) | listener, active requests, number served | serve_once, serve_n, listen_and_serve(_with), one worker per request | contexts, `InvokeCallable` |
| Static lock-order analyzers (`ast/SyncGraphAnalyzer.cpp`, `ast/common/SyncStaticAnalyzerImpl.h`) | scopes of resources, summaries of callables, lock and join graphs | one pass to summarise, one to judge | what they accept runs on the mutexes above |
| Semantic analyzer (`ast/sematic`) | scopes, registries of types and modules | one visit per node | decides what is compiled |
| Symbol table, bytecode generator (`ast/SymbolTable.cpp`, `bytecode/generator`) | slots, captures, code with jumps to patch, contracts, effects | one visit per node | code for the machine |
| Machine (`VirtualMachineCore.cpp`, `VirtualMachineDataOps.cpp`, `ValueHelper`) | frames, stack, heap, globals, handlers | instructions | |
| MySQL, RabbitMQ, outbox; linker, parser, lexer, AST builder, assembly generator | see section 6 | | |

What is hard here: every operation of the runtime is called by OS threads
(tasks, actor workers, HTTP requests) at the same time; condition variables;
several-step operations that fail half way; C++ code that goes on after the Aura
code it called has failed; errors that carry no message.  In the compiler:
decisions made twice in different code (which statement leaves a value, where a
scope ends, which slot a name has), whose disagreement shows only on some path
of some program.  `PROJECT.json` lists these hazards line by line, with the
property that covers each.

What correctness means, per component: the wait graph has no cycle and
ownership is consistent; transactions are atomic and release what they locked;
frames, transactions and handlers stay nested through every failure; channels
deliver each value once and in order and wake whoever can go on; cancellation
reaches everything below and is never taken back; a task is joined once and its
outcome reaches everybody; actors answer the right caller and never stop;
serving ends on shutdown and leaves no request behind; programs that the
lock-order analysis accepts never wait in a circle; compiled programs do what
their source says, and accepted ones never meet a value of the wrong kind.

## 2. Modules

| Module | Models | State and actions |
|---|---|---|
| `WaitGraph` | reachability in the wait graph | operators only |
| `SyncRuntime` | `SharedRuntimeSync.cpp` | one action per public operation, each atomic because the code holds `m_syncMutex` throughout; `WaitFor` is the edge that is inserted and taken back when it would close a cycle |
| `WaitGraphSearch` | the loop of `WouldIntroduceCycleLocked` | one action per iteration; the order in which an `unordered_set` is walked is any order; proved about, not run |
| `NestedTransactions` | what transactions promise | views handed over whole; the abstract specification |
| `Transactions` | `ExecutionContextTransactions.cpp` on top of `SyncRuntime` | try-lock in its four separately locked calls, buffered writes, merge into the parent, piecewise commit, unwinding with prior values, give-up of a begin |
| `CallStack` | `Run`, calls, returns, effects, iterator callbacks, `InvokeCallable`, `with_tx` | heights of the three stacks, frames, the nested `Run` calls and what each caller saved; a step is an instruction or the return of a nested `Run` |
| `Channel` | send, recv, close | wait sets for the two condition variables, `notify_one` as a choice, spurious wakeups |
| `Contexts` | the context tree | creation and cancellation under the mutex, one step per visited context; the flag is read outside the mutex |
| `Tasks`, `TaskGroups` | tasks; `errorgroup` and `waitgroup` composed with them | completion and `notify_all` are two steps; await, join, cancel; the loops of `wait` |
| `Actors` | send, query, `RunActorWorker` | posting and notifying are two steps; reply table |
| `HttpServer` | the server, on top of `Contexts` | one caller of contexts becomes the server; its accept loop in steps, each call of `IsContextCancelled` in its two steps; a worker's reading, routing and writing |
| `Syntax` | the nodes of the syntax tree | operators only |
| `SymbolTable` | scopes and slots | operators only |
| `SemanticAnalyzer` | `ast/sematic` | one operator per visit, on a record that holds the analyzer's state |
| `BytecodeGenerator` | `bytecode/generator` | one operator per visit, on a record with the functions being compiled; code is kept by bytes, so that jump offsets are the real ones |
| `Machine` | values, data operations, dispatch loop | `Exec` maps a machine to the machine after one instruction; a double is an exact fraction or the negative zero, printed with six significant digits |
| `SourceSemantics` | what a program means | reference definition, told from the syntax tree without slots, jumps or stack |
| `Compilation` | the three stages one after the other | analyse, generate, one action per instruction |
| `SyncStaticAnalyzer` | `SyncStaticAnalyzerImpl.h`, `SyncGraphAnalyzer.cpp` | operators on a record with the analyzer's state |
| `LockOrder` | programs written statement by statement, judged, and run on `SyncRuntime` | write a statement, run, and the calls of `std.sync` by each thread: `lock` in its separately locked parts, with every error of `ExecutionContextSync.cpp`; an error ends the program, a `false` of `lock` is asked again, as programs do in a loop; `join` registers the wait and answers at once |
| `SyncRuntimeProofs`, `WaitGraphSearchProofs`, `TransactionsProofs`, `ChannelProofs`, `TaskGroupsProofs`, `ActorsProofs`, `CallStackProofs`, `HttpServerProofs` | theorems | see section 5 |

`Transactions` extends `SyncRuntime` and uses its actions, so a lock taken by a
transaction goes through the modelled wait graph.  `TaskGroups` extends `Tasks`.
`HttpServer` extends `Contexts`, `LockOrder` extends `SyncRuntime` and
`SyncStaticAnalyzer`, `Compilation` puts the compiler and the machine together.
The front-end modules model sequential code, so their operations are functions
of a state record rather than actions.  `CallStack` covers transactions by their number only, which is what frames
save; their contents are in `Transactions`.

Faulty variants ("Faulty variant: ...") are definitions that stand for plausible
mistakes in the code; substituted for the real definition they must make the
property of the same run fail.  `PROJECT.json` pairs them.

## 3. Runs

| Run | Instance | Shows |
|---|---|---|
| `sync_runtime` | 4 threads, 3 mutexes | no cycle, ownership recorded twice agrees, finished threads leave nothing |
| `transactions` | 2 contexts, 2 mutexes, a cell and an array; nested over the cell, or flat over both | refinement of `NestedTransactions`, locks follow transactions, no operation blocks |
| `channel` | 2 senders, 2 receivers, capacities 0, 1, 2 | order, no loss at close, true answers, no lost wakeup, close releases all |
| `http_server` | 2 callers, one of which serves 2 clients with no limit, 0 or 1; 4 contexts, 2 while serving | cancellation reaches children and is settled; it ends the serving; serving leaves nothing in progress |
| `task_groups` | main and 3 tasks, one of which awaits itself and another | one join, right outcome for everybody, results of both groups, waits end |
| `actors` | 2 actors, 2 clients, one actor queries the other | mailbox order, replies match, exact pending table, everything handled and answered |
| `call_stack` | 4 frames, 8 values, 4 nested runs, 1 transaction, 1 handler | nesting, callers intact, nothing outlives its frame, failures reach the end |
| `lock_order` | programs of up to 3 statements over 2 threads and 3 mutexes; locks, joins, calls of functions, lambdas and an imported function, branches, loops | the verdict is that of the program with its calls written out; accepted programs never wait in a circle; a deadlock that the runtime reports to them rests on an edge that nobody waits by any more; they end, with all threads finished or with an error |
| `compile` | 839 programs: all pairs of 26 kinds of statements, statements in loops and closures, programs with tasks, actors, transactions, generics and imports, ill-typed ones, and 11 kinds of statements on which compiler and language are known to differ | the stack is in order on every path; programs do what the source means; accepted programs do not get stuck; each outside the constructs that the property names |

Three runs are expected to fail, each on one property that states what a document
or test of the repository says:

- `transactions_nested_arrays`: an array write of a nested transaction starts
  from the committed vector and loses what the parent has buffered.
- `with_tx`: a callback that loses a mutex fails without a message,
  `InvokeCallable` reports nothing, and `with_tx` commits.
- `error_group`: `errorgroup.wait` joins in list order, so the failure of a
  later task does not cancel the context while an earlier one runs; one that
  runs until it is cancelled keeps the group waiting for ever.  The
  documentation says that the first failure cancels the context.

Observed and not made into runs, in the runtime: two senders on a rendezvous
channel share `cvNotFull`, `notify_one` may wake the wrong one, and a send whose
value was delivered does not return until something else happens
(`NoLostWakeup` therefore claims senders only for buffered channels);
`waitgroup.wait`, of which the documentation says that it waits for all tasks,
raises at the first task of its list that failed and leaves the later ones
running (`GroupResult` says what is over by then); an unlock leaves the edges of
those who waited for the mutex in the wait graph, so that `lock` and `join` can
report a deadlock that does not exist and end a sound program (`AlarmsAreStale`
shows that every reported cycle of an accepted program has such an edge or one
of a join); `lock` raises "Mutex lock failed" when the mutex is released between
the attempt and the question who has it; `join` raises for a thread that has
finished; `background()` hands out one shared
context, which anybody may cancel; a task or query whose program stops silently
on contention is reported as successful; when the frame limit is met while
`with_tx` calls back, the exception passes through it and the connection stays
in its transaction, also when the program is over (no Aura code runs with it,
which is what `NoStrayDbTransaction` shows); two actors that query each other, and tasks that
await each other, wait forever; a client that closes before it has sent a whole
request makes the server call the route with empty fields; a peer that keeps
sending after the response keeps its worker, and with it a shutdown, from
ending.

In the compiler: a join made with a mutex held is in neither graph of the
lock-order analysis, and slots, argument counts and jumps wrap at 8 and 16 bits;
no run goes there.  The following are in programs of the `compile` run, and the
properties name each as an exception, by the predicate in brackets; without the
exception TLC finds the property violated.

- `StackDiscipline`: `handle`, `comptime` and bare constants as statements leave
  their value on the stack, one per turn of a loop (`LeavesValues`).
- `RunsAsWritten`: `ensures` is not checked when a function ends without
  `return` (`EndsUnchecked`); a module-level variable exists twice, as a local
  of the module and as a global (`HasModuleVariable`); a variable of an
  interface type calls the methods of the struct it was declared with, whatever
  is assigned to it later, and a parameter of such a type calls none
  (`LooseInterface`); a `ref` of a captured variable is looked up in the frame
  of the callee (`ReferenceInClosure`).
- `AcceptedNeverStuck`: the variable of an `iter` statement stays known to the
  analyzer afterwards and is an unknown name to the machine
  (`UsesLoopVariableAfterwards`); the type of a `handle` expression is that of
  its last handler (`HandlesValueOfItsOwn`); arithmetic on integers yields
  doubles, which are no keys of a map (`HasIntegerKeys`); and the last two of
  the list above.  Each explains failures of its own kind only.

### Bounds

Four threads and three mutexes are enough for cycles through two locks and a
join and for a stale edge beside them.  In `transactions` two levels of nesting
give every case of merging (the parent has or has not the location, holds or
does not hold the mutex) and two contexts give contention; the passing run does
not write an array again that the parent has written, which is the case of
`transactions_nested_arrays`.  Channels need two tasks per side for a
notification to reach the wrong one.  `MaxNested` bounds nested runs, which the
frame limit bounds too as long as no silent failure has wiped the frames; four
are enough for an iterator callback inside an iterator callback inside
`with_tx`.  In `lock_order` three statements are enough for two orders of
a pair of mutexes and for a circle through a third; programs are run when their
joins are made without a mutex held.  Two locks in opposite order by calls that
release them leave the stale edge that makes a third lock raise.  In `compile` every kind of statement
meets every other in the same block, before and after it, which is where slots,
scopes and the height of the stack interact; the program is run to its end, and
`StackDiscipline` looks at all paths, run or not.  `MaxWhileServing`,
`MaxStatements`, `MaxContexts`, `MaxSends`, `MaxRecvs`, `MaxPosts`, `MaxLen`,
`MaxTxns`, `MaxHandlers` and `MaxArgs` cap counters in guards.  Deadlock is not
checked where the program may simply stop calling.

## 4. Fairness

Weak fairness is assumed only for steps that the code takes by itself: a task
that is not blocked and can get the mutex goes on (`Channel`, `Tasks`,
`Actors`); a notified thread re-evaluates its predicate; C++
callers handle the result of a nested `Run`.  Nobody has to call anything, no
wakeup has to be spurious, Aura code may run forever in `CallStack`, and a task
need not end in `Tasks` and `TaskGroups`.  `Actors` assumes that a method which
is not waiting for an answer ends.  `HttpServer` assumes that routes return and
peers fall silent (reads and writes have timeouts), that whoever holds
`m_contextMutex` releases it, and, strongly, that the server gets it some time
when others keep taking it.  `LockOrder` assumes that each thread of a running
program is scheduled again and again; that a `false` of `lock` is asked again is
the loop in the text of its programs.  In `error_group` the earlier task that
never ends is the one that waits for the cancellation; everything the code of
`wait` does is fair.  `Compilation` is sequential and has no liveness property;
`SyncRuntime`, `Transactions` and `Contexts` have safety properties only.

## 5. Proofs

Eight modules hold theorems, one per component of the runtime, each about the
specification the runs check, for every value of the constants.  They assume
what the `ASSUME` of the component's module says: bounds are natural numbers,
actors and clients, senders and receivers are different threads, "nobody" and
"none" are no thread and no task, and (`TransactionsAssumption`) every location
is guarded by one mutex, no location is both a cell and an array, and a program
is a set of locations with a depth per context.  TLC evaluates these in every run.

Each theorem comes from an inductive invariant, named `...Inv`, which contains
the property itself; the next lines say what had to be added to make it
inductive, and why.

`SyncRuntimeProofs`, any number of threads and mutexes.

- `TypeTheorem`, `OwnershipTheorem`, `FinishTheorem`: the invariant `SyncInv` is
  the conjunction of the three.  None is inductive alone: an edge
  added by `TryLockMutex` points to an owner, which must be active for
  `FinishedThreadsLeaveNothing`; it is, because a finished thread owns nothing,
  which `FinishThread` achieves only because the two records of ownership agree.
- `AcyclicTheorem`: the wait graph never has a cycle.  Reachability is defined
  by closed sets, so the argument needs no induction: a set that separates an
  edge from its source survives the removal of edges, and after an accepted
  edge it is widened by, or cut down to, the set that separates the new edge.

`WaitGraphSearchProofs`, any finite set of nodes (a hypothesis of the theorem):
`SearchTheorem`, whatever the graph and the order, the answer of the search is
reachability.  The invariant says that everything a
visited node waits for has been seen and nothing unreachable has.

`TransactionsProofs`, any number of contexts, mutexes, locations and levels.

- `LocksTheorem`: a context owns exactly the mutexes of its transactions and of
  the operation it is in, although a begin takes them one by one in separately
  locked steps, gives up half way, and a nested commit hands them to the parent.
  The invariant `TxnInv` adds to `SyncInv` that no mutex is listed twice on the
  whole stack, that a transaction at level `i` names only mutexes listed at
  levels up to `i`, and which locals each phase of an operation uses.  Without
  the first, releasing one lock could take it from another level; without the
  second, popping a level could leave a level below uncovered.
- `ExclusionTheorem`: two contexts are never in transactions that name the same
  mutex.  `TxnAcyclicTheorem`: the wait graph stays acyclic when transactions
  drive it.  `TxnTypeTheorem`: types, and every buffered write has a prior
  value.
- `WriteInvariance`: `WriteInv`, inductive together with `TxnInv`, says of the
  buffers what `TxnInv` says of the locks.  At every level the locations written
  are guarded by mutexes named at that level or below, a commit or rollback in
  progress still owns the mutexes of what it has to write, a commit in progress
  has left the stack empty, and every prior value, in a transaction or in one
  being unwound, is the value in the heap.  The last part depends on the others:
  a value in the heap changes only under its mutex, and the mutex of a location
  with a prior value is owned by the context that has it.
- `RollbackTheorem`: `RollbackChangesNothing`, the values that an unwinding
  writes back are those already there.  Writes are buffered, so the code's
  restoring of prior values is never needed, and never does harm either.
- `RefinementTheorem`: `Transactions` implements `NestedTransactions`, if no
  nested transaction writes an array that an enclosing one has written
  (`NoRewrites`; without it the statement is false, which is what
  `transactions_nested_arrays` shows).  The abstract data are the heap with the
  commits in progress completed (`CommittedData`), a level sees the latest
  buffered write at or below it (`Seen`).  A begin takes effect when its last
  mutex is locked (`BegunStep`), a write when it is buffered (`SetCellStep`,
  `ArrayStep`), a commit when the transaction leaves the stack (`NestedStep`,
  `CommitStep`), a rollback likewise (`RollbackStep`); all others leave the
  abstract state as it is (`QuietSteps`, `ApplySteps`).  That a commit takes
  effect whole needs that one context at a time has a location still to write
  (`OneLate`), and that others do not see it that no other context has its mutex
  (`NoneLate`, `LevelsMove`).

`ChannelProofs`, any tasks and capacities, 0 included.

- `FifoTheorem`, `SendAnswersTheorem`, `CloseDrainsTheorem`, `OnceTheorem`,
  `ChannelTypeTheorem`.  `ChannelInv` adds that a channel uses either the slot
  or the queue, that the replies of a task count its calls, and that a sender
  that waits for the handoff has its value among the accepted ones; together
  they tell that `true` after the handoff speaks of this call's value.

`TaskGroupsProofs`, any tasks that await, cancel and join each other.

- `JoinedOnceTheorem`, `AwaitAnswersTheorem`, `TasksTypeTheorem`: `TaskInv` adds
  that `joined` counts the joins, that a completed task has left its outcome,
  and where a thread inside `AwaitTask` is.
- `GroupResultTheorem`: `GroupInv` says what the loop of `wait` knows about the
  tasks it has gone through: they are over, and the error it keeps is the first in
  the list; and, for `waitgroup.wait`, that it stopped at that one.

`ActorsProofs`, any actors and clients.

- `MailboxOrderTheorem`, `RepliesMatchTheorem`, `PendingTheorem`: `ActorsInv`
  adds that requests under way to one actor have different ids, each less than
  the next id; that a worker is at the last item it took; that every query
  posted and not yet over is awaited by the thread and call it names; and that
  an answer in the table is the answer to the query that waits for it.

`CallStackProofs`, any limits on frames, values, nested runs, transactions and
handlers.

- `WellNestedTheorem`, `CallersIntactTheorem`, `NothingLeftTheorem`,
  `NoStrayTheorem`, `LimitsTheorem` and the action property
  `FramesTakeTheirOwnTheorem`.  `CallInv` orders every frame against every record
  that a C++ caller saved: a failed callback cuts the frames back to a record,
  and only this order says that it cuts into nobody else.  The orders are stated
  for all pairs, not for neighbours, so no induction over the stack is needed.

`HttpServerProofs`, any callers, contexts and clients.

- `ReachesChildrenTheorem` and the action property `SettledTheorem`:
  `ContextInv` says that the contexts form a tree in which a child is younger
  than its parent, that a context below a cancelled one is cancelled or still on
  the work list of the traversal in progress, that signal awareness is passed
  down, and that what was reported once, and what a call under way must find
  cancelled, still is.
- `ServedInFullTheorem`: `HttpInv` adds, per stage of the loop, what is still
  open, that the number served is the size of the set of accepted connections,
  and why the loop was left.

Only model-checked:

- Liveness (`NoLostWakeup`, `CloseReleasesAll`, `AwaitReturns`, `WaitEnds`,
  `MailboxDrains`, `QueriesReturn`, `ShutdownEndsServing`, `FailuresEnd`,
  `AcceptedProgramsEnd`) and `NeverBlocked`, which
  speaks of `ENABLED`: the prover handles neither.
- `LockOrder` and `Compilation`, with the modules they are made of: walks over
  syntax trees are recursive operators, in whose presence the prover has no SMT.
- The refinement's counterexample: that `NoRewrites` cannot be dropped is what
  the run `transactions_nested_arrays` finds.
- The bound on `failures` in `ActorsTypeOK`, which counts with `SelectSeq`, a
  recursive definition.

## 6. Not modelled

- Lexer, parser with its table builder, AST builder: from text to syntax trees.
  The models start from syntax trees.
- Package linker, compiler driver, assembly generator: files and text.
- RabbitMQ client, MySQL statements and results, outbox relay: calls of client
  libraries.  What they guarantee depends on a broker and a database that are
  not in the repository; of MySQL only `with_tx` is modelled, because it decides
  between commit and rollback itself.
- JSON, I/O, crypto and similar native modules keep no state between calls; of
  the table of native functions the analyzer knows only those that the programs
  of the runs use.
- `ShutdownActors`: it runs in the destructor of the shared runtime, which every
  worker keeps alive.
- The class `ComptimeEvaluator` of the generator, which nothing calls, and the
  constant pool of a chunk.
- Doubles that are no exact fractions of small integers: rounding, overflow,
  infinities, and texts with an exponent (from a million on).
- `IsFunctionBackedInterfaceMethod` answers false whatever it is asked; the
  model has it and its branches, which are never taken.
- `Machine` stops at instructions of tasks, actors and transactions; `Tasks`,
  `Actors` and `Transactions` model what these do.

## 7. Plan

What is left, in this order:

- `SyncGraphAnalyzer` and the generator walk syntax trees.  Written as functions
  on numbered nodes instead of recursive operators they could be proved about;
  the first theorem would be that the two lock-order graphs contain every edge
  of the program with its calls written out.
- The hazards without a property in `PROJECT.json`: waits of tasks and of actors
  for each other, which the wait graph does not know, joins made with a mutex
  held, and the lost wakeup of rendezvous senders.
