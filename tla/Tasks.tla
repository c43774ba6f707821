------------------------------- MODULE Tasks -------------------------------
(***************************************************************************)
(* Tasks (SharedRuntimeTasks.cpp, TaskModule.cpp): one OS thread each,     *)
(* whose outcome any number of other threads may await, read under         *)
(* state->mutex and told by state->cv.  The first thread that finds the    *)
(* task completed also joins the OS thread; std::jthread may be joined     *)
(* only once, and never by itself.                                         *)
(***************************************************************************)
EXTENDS Naturals, FiniteSets

CONSTANTS
  Tasks,
  Main,      \* the main thread
  AwaitsOf   \* AwaitsOf[w]: the tasks whose handle thread w has and awaits

Workers == Tasks \cup {Main}
None == "none"

ASSUME TasksAssumption ==
  /\ Main \notin Tasks /\ None \notin Tasks
  /\ AwaitsOf \in [Workers -> SUBSET Tasks]

VARIABLES
  pc,         \* "unborn", "run", "await", "join", "notify" or "exited", per thread
  completed,  \* TaskState::completed
  error,      \* TaskState::error: "" or "error"
  joined,     \* TaskState::joined
  stopped,    \* CancelTask was called (cancelled, request_stop)
  waiting,    \* threads blocked on TaskState::cv, per task
  target,     \* the task that a thread awaits
  reply,      \* what the last await of a thread answered
  outcome,    \* history: how the runner of a task ended
  joins       \* history: calls of worker.join(), per task

stateVars == <<completed, error, joined, stopped>>
awaitVars == <<target, reply>>
vars == <<pc, stateVars, waiting, awaitVars, outcome, joins>>

Init ==
  /\ pc = [w \in Workers |-> IF w = Main THEN "run" ELSE "unborn"]
  /\ completed = {} /\ joined = {} /\ stopped = {}
  /\ error = [t \in Tasks |-> ""]
  /\ waiting = [t \in Tasks |-> {}]
  /\ target = [w \in Workers |-> None]
  /\ reply = [w \in Workers |-> None]
  /\ outcome = [t \in Tasks |-> None]
  /\ joins = [t \in Tasks |-> 0]

Goto(w, l) == pc' = [pc EXCEPT ![w] = l]
Blocked(w) == \E t \in Tasks : w \in waiting[t]

-----------------------------------------------------------------------------

(* SpawnTask: nobody else has the handle before it returns. *)
SpawnTask(w, t) ==
  /\ pc[w] = "run" /\ pc[t] = "unborn"
  /\ Goto(t, "run")
  /\ UNCHANGED <<stateVars, waiting, awaitVars, outcome, joins>>

(* The runner of t returns, or throws: the outcome is stored under the     *)
(* mutex; notify_all comes after the mutex is released.                    *)
RunnerEnds(t, o) ==
  /\ t \in Tasks /\ pc[t] = "run"
  /\ outcome' = [outcome EXCEPT ![t] = o]
  /\ completed' = completed \cup {t}
  /\ error' = [error EXCEPT ![t] = IF o = "value" THEN "" ELSE "error"]
  /\ Goto(t, "notify")
  /\ UNCHANGED <<joined, stopped, waiting, awaitVars, joins>>

(* Faulty variant: tells one of the waiting threads only. *)
WorkerNotifiesOne(t) ==
  /\ pc[t] = "notify"
  /\ IF waiting[t] = {} THEN UNCHANGED waiting
       ELSE \E w \in waiting[t] : waiting' = [waiting EXCEPT ![t] = @ \ {w}]
  /\ Goto(t, "exited")
  /\ UNCHANGED <<stateVars, awaitVars, outcome, joins>>

(* Faulty variant: tells nobody. *)
WorkerExitsSilently(t) ==
  /\ pc[t] = "notify"
  /\ Goto(t, "exited")
  /\ UNCHANGED <<stateVars, waiting, awaitVars, outcome, joins>>

WorkerExits(t) ==
  /\ pc[t] = "notify"
  /\ waiting' = [waiting EXCEPT ![t] = {}]
  /\ Goto(t, "exited")
  /\ UNCHANGED <<stateVars, awaitVars, outcome, joins>>

AwaitTask(w, t) ==
  /\ pc[w] = "run"
  /\ t \in AwaitsOf[w] /\ pc[t] # "unborn"
  /\ target' = [target EXCEPT ![w] = t]
  /\ reply' = [reply EXCEPT ![w] = None]
  /\ Goto(w, "await")
  /\ UNCHANGED <<stateVars, waiting, outcome, joins>>

AwaitBlocks(w) ==
  /\ pc[w] = "await" /\ ~Blocked(w)
  /\ target[w] \notin completed
  /\ waiting' = [waiting EXCEPT ![target[w]] = @ \cup {w}]
  /\ UNCHANGED <<pc, stateVars, awaitVars, outcome, joins>>

Answer(t) == IF error[t] = "" THEN "value" ELSE "error"

(* Faulty variant: every thread that awaits joins the worker. *)
AwaitReadsAndJoins(w) ==
  /\ pc[w] = "await" /\ ~Blocked(w)
  /\ target[w] \in completed
  /\ reply' = [reply EXCEPT ![w] = Answer(target[w])]
  /\ joins' = [joins EXCEPT ![target[w]] = @ + 1]
  /\ Goto(w, "join")
  /\ UNCHANGED <<stateVars, waiting, target, outcome>>

(* Faulty variant: a cv.wait without a predicate. *)
AwaitReadsEarly(w) ==
  /\ pc[w] = "await" /\ ~Blocked(w)
  /\ reply' = [reply EXCEPT ![w] = Answer(target[w])]
  /\ joined' = joined \cup {target[w]}
  /\ Goto(w, "run")
  /\ UNCHANGED <<completed, error, stopped, waiting, target, outcome, joins>>

(* The task has completed: copy what it left, and join it if nobody has. *)
AwaitReads(w) ==
  /\ pc[w] = "await" /\ ~Blocked(w)
  /\ target[w] \in completed
  /\ reply' = [reply EXCEPT ![w] = Answer(target[w])]
  /\ IF target[w] \notin joined /\ target[w] # w
       THEN /\ joined' = joined \cup {target[w]}
            /\ joins' = [joins EXCEPT ![target[w]] = @ + 1]
            /\ Goto(w, "join")
       ELSE /\ Goto(w, "run")
            /\ UNCHANGED <<joined, joins>>
  /\ UNCHANGED <<completed, error, stopped, waiting, target, outcome>>

(* worker.join() returns when the thread function has. *)
JoinReturns(w) ==
  /\ pc[w] = "join"
  /\ pc[target[w]] = "exited"
  /\ Goto(w, "run")
  /\ UNCHANGED <<stateVars, waiting, awaitVars, outcome, joins>>

(* CancelTask: a mark, and a wakeup of those who await.  The runner does   *)
(* not look at the stop token.                                             *)
CancelTask(w, t) ==
  /\ pc[w] = "run"
  /\ t \in AwaitsOf[w] /\ pc[t] # "unborn"
  /\ stopped' = stopped \cup {t}
  /\ waiting' = [waiting EXCEPT ![t] = {}]
  /\ UNCHANGED <<pc, completed, error, joined, awaitVars, outcome, joins>>

-----------------------------------------------------------------------------

AwaitStep(w) == AwaitBlocks(w) \/ AwaitReads(w) \/ JoinReturns(w)

Next ==
  \/ \E w \in Workers, t \in Tasks : SpawnTask(w, t) \/ AwaitTask(w, t) \/ CancelTask(w, t)
  \/ \E t \in Tasks, o \in {"value", "error"} : RunnerEnds(t, o)
  \/ \E t \in Tasks : WorkerExits(t)
  \/ \E w \in Workers : AwaitStep(w)

(* Threads that can run do run; no task has to end. *)
Fairness == /\ \A w \in Workers : WF_vars(AwaitStep(w))
            /\ \A t \in Tasks : WF_vars(WorkerExits(t))

Spec == Init /\ [][Next]_vars /\ Fairness

-----------------------------------------------------------------------------
(* Properties. *)

(* The types; TaskState::completed, error and joined follow the worker. *)
TasksTypeOK ==
  /\ pc \in [Workers -> {"unborn", "run", "await", "join", "notify", "exited"}]
  /\ completed = {t \in Tasks : pc[t] \in {"notify", "exited"}}
  /\ error \in [Tasks -> {"", "error"}]
  /\ joined \subseteq completed
  /\ stopped \subseteq Tasks
  /\ waiting \in [Tasks -> SUBSET Workers]
  /\ \A w \in Workers : Blocked(w) => pc[w] = "await"
  /\ target \in [Workers -> Tasks \cup {None}]
  /\ reply \in [Workers -> {None, "value", "error"}]

(* However many threads await a task, its OS thread is joined at most once *)
(* and never by itself: AwaitTask never makes std::jthread::join throw.    *)
JoinedOnce ==
  /\ \A t \in Tasks : joins[t] <= 1
  /\ \A w \in Workers : pc[w] = "join" => target[w] # w

(* Everybody who awaits a task is given the outcome of its runner: no      *)
(* wakeup, by CancelTask or by another task, passes for the end of it.     *)
AwaitAnswersOutcome ==
  \A w \in Workers : reply[w] # None => reply[w] = outcome[target[w]]

(* Everybody who awaits a task that has ended returns. *)
AwaitReturns ==
  \A w \in Workers :
    (pc[w] = "await" /\ target[w] \in completed) ~> pc[w] \notin {"await", "join"}
=============================================================================
