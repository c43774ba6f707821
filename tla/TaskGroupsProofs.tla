-------------------------- MODULE TaskGroupsProofs --------------------------
(***************************************************************************)
(* For any number of tasks that spawn, await, cancel and join each other   *)
(* in any order: a worker is joined once, every await is given what the    *)
(* runner left, and the wait of a group answers for all of its tasks.      *)
(***************************************************************************)
EXTENDS TaskGroups, SequenceTheorems, TLAPS

(* joined is set by the thread that goes on to join. *)
JoinsCounted ==
  /\ joins \in [Tasks -> Nat]
  /\ \A t \in Tasks : joins[t] = IF t \in joined THEN 1 ELSE 0

(* A task that is over has left its outcome in TaskState::error. *)
OutcomeStored ==
  /\ outcome \in [Tasks -> {None, "value", "error"}]
  /\ \A t \in completed : outcome[t] = Answer(t)

(* Where a thread inside AwaitTask is, and what it has been told. *)
AwaitsSound ==
  \A w \in Workers :
    /\ pc[w] \in {"await", "join"} => target[w] \in Tasks
    /\ pc[w] = "join" => target[w] # w /\ reply[w] # None
    /\ reply[w] # None => target[w] \in completed /\ reply[w] = outcome[target[w]]

TaskInv == TasksTypeOK /\ JoinsCounted /\ OutcomeStored /\ AwaitsSound

(* The tasks that wait has gone through are over.  Until an error was met  *)
(* none of them has failed; the one that is kept is the first of them.     *)
Collected ==
  /\ \A i \in 1 .. at - 1 : group[i] \in completed
  /\ IF firstError = None
       THEN (\A i \in 1 .. at - 1 : ~Failed(group[i])) /\ ~cancelledCtx
       ELSE /\ kind = "errorgroup" /\ cancelledCtx
            /\ \E k \in 1 .. at - 1 :
                 /\ group[k] = firstError /\ Failed(group[k])
                 /\ \A j \in 1 .. k - 1 : ~Failed(group[j])

GroupTypeOK ==
  /\ kind \in {"errorgroup", "waitgroup"}
  /\ group \in Seq(Tasks) /\ at \in 1 .. Len(group) + 1
  /\ gpc \in {"add", "loop", "joining", "returned", "raised"}
  /\ firstError \in Tasks \cup {None} /\ cancelledCtx \in BOOLEAN

GroupInv ==
  /\ GroupTypeOK
  /\ gpc # "raised" => Collected
  /\ gpc = "raised" => kind = "waitgroup" /\ StoppedAtFailure
  /\ gpc = "add" => at = 1
  /\ gpc = "joining" => /\ at <= Len(group) /\ target[Main] = group[at]
                        /\ pc[Main] = "run" => reply[Main] # None
  /\ gpc = "returned" => at = Len(group) + 1

-----------------------------------------------------------------------------
(* Tasks: the steps. *)

(* No task is spawned at the start.                                        *)
LEMMA TaskInit == Init => TaskInv
<1> SUFFICES ASSUME Init PROVE TaskInv
  OBVIOUS
<1> USE DEF Init
<1>1. TasksTypeOK
  BY TasksAssumption DEF TasksTypeOK, Workers, Blocked
<1>2. JoinsCounted
  BY DEF JoinsCounted
<1>3. OutcomeStored /\ AwaitsSound
  BY DEF OutcomeStored, AwaitsSound, Workers
<1> QED
  BY <1>1, <1>2, <1>3 DEF TaskInv

(* A spawned task is new: nobody has joined or awaited it.                 *)
LEMMA SpawnKeepsInv ==
  ASSUME TaskInv, NEW w \in Workers, NEW t \in Tasks, SpawnTask(w, t)
  PROVE  TaskInv'
<1> USE DEF SpawnTask, stateVars, awaitVars, Goto
<1>1. TasksTypeOK'
  BY DEF TaskInv, TasksTypeOK, Workers, Blocked
<1>2. JoinsCounted' /\ OutcomeStored'
  BY DEF TaskInv, JoinsCounted, OutcomeStored, Answer
<1>3. AwaitsSound'
  BY DEF TaskInv, TasksTypeOK, AwaitsSound, Workers
<1> QED
  BY <1>1, <1>2, <1>3 DEF TaskInv

(* A task that completes has stored the outcome that awaiting it answers.  *)
LEMMA RunnerEndsKeepsInv ==
  ASSUME TaskInv, NEW t \in Tasks, NEW o \in {"value", "error"}, RunnerEnds(t, o)
  PROVE  TaskInv'
<1> USE DEF RunnerEnds, awaitVars, Goto
<1>1. TasksTypeOK'
  BY DEF TaskInv, TasksTypeOK, Workers, Blocked
<1>2. JoinsCounted'
  BY DEF TaskInv, JoinsCounted
<1>3. OutcomeStored'
  BY DEF TaskInv, TasksTypeOK, OutcomeStored, Answer
<1>4. t \notin completed
  BY DEF TaskInv, TasksTypeOK
<1>5. AwaitsSound'
  BY <1>4 DEF TaskInv, TasksTypeOK, AwaitsSound, OutcomeStored, Workers
<1> QED
  BY <1>1, <1>2, <1>3, <1>5 DEF TaskInv

(* A thread that ends leaves the stored outcome in place.                  *)
LEMMA WorkerExitsKeepsInv ==
  ASSUME TaskInv, NEW t \in Tasks, WorkerExits(t)
  PROVE  TaskInv'
<1> USE DEF WorkerExits, stateVars, awaitVars, Goto
<1>1. TasksTypeOK'
  BY DEF TaskInv, TasksTypeOK, Workers, Blocked
<1>2. JoinsCounted' /\ OutcomeStored'
  BY DEF TaskInv, JoinsCounted, OutcomeStored, Answer
<1>3. AwaitsSound'
  BY DEF TaskInv, TasksTypeOK, AwaitsSound, Workers
<1> QED
  BY <1>1, <1>2, <1>3 DEF TaskInv

(* A caller that begins to await has joined nothing yet.                   *)
LEMMA AwaitTaskKeepsInv ==
  ASSUME TaskInv, NEW w \in Workers, NEW t \in Tasks, AwaitTask(w, t)
  PROVE  TaskInv'
<1> USE DEF AwaitTask, stateVars, Goto
<1>1. TasksTypeOK'
  BY DEF TaskInv, TasksTypeOK, Workers, Blocked
<1>2. JoinsCounted' /\ OutcomeStored'
  BY DEF TaskInv, JoinsCounted, OutcomeStored, Answer
<1>3. AwaitsSound'
  <2>1. /\ pc'[w] = "await" /\ target'[w] = t /\ reply'[w] = None
        /\ completed' = completed /\ outcome' = outcome
    BY DEF TaskInv, TasksTypeOK
  <2>2. ASSUME NEW v \in Workers, v # w
        PROVE  pc'[v] = pc[v] /\ target'[v] = target[v] /\ reply'[v] = reply[v]
    BY <2>2 DEF TaskInv, TasksTypeOK
  <2> QED
    BY ONLY TaskInv, <2>1, <2>2, w \in Workers, t \in Tasks DEF TaskInv, AwaitsSound
<1> QED
  BY <1>1, <1>2, <1>3 DEF TaskInv

(* Cancelling a task changes no outcome, join or await.                    *)
LEMMA CancelKeepsInv ==
  ASSUME TaskInv, NEW w \in Workers, NEW t \in Tasks, CancelTask(w, t)
  PROVE  TaskInv'
<1> USE DEF CancelTask, awaitVars
<1>1. TasksTypeOK'
  BY DEF TaskInv, TasksTypeOK, Workers, Blocked
<1>2. JoinsCounted' /\ OutcomeStored' /\ AwaitsSound'
  BY DEF TaskInv, JoinsCounted, OutcomeStored, AwaitsSound, Answer
<1> QED
  BY <1>1, <1>2 DEF TaskInv

(* Blocking, joining and answering: one join, and the stored answer.       *)
LEMMA AwaitStepKeepsInv ==
  ASSUME TaskInv, NEW w \in Workers, AwaitStep(w)
  PROVE  TaskInv'
<1>1. CASE AwaitBlocks(w)
  <2> USE <1>1 DEF AwaitBlocks, stateVars, awaitVars
  <2>1. target[w] \in Tasks
    BY DEF TaskInv, AwaitsSound
  <2>2. TasksTypeOK'
    BY <2>1 DEF TaskInv, TasksTypeOK, Blocked
  <2>3. JoinsCounted' /\ OutcomeStored' /\ AwaitsSound'
    BY DEF TaskInv, JoinsCounted, OutcomeStored, AwaitsSound, Answer
  <2> QED
    BY <2>2, <2>3 DEF TaskInv
<1>2. CASE AwaitReads(w)
  <2> DEFINE t == target[w]
  <2>1. /\ t \in Tasks /\ t \in completed /\ t \in Workers
        /\ pc[w] = "await" /\ ~Blocked(w)
        /\ reply' = [reply EXCEPT ![w] = Answer(t)]
        /\ completed' = completed /\ error' = error /\ stopped' = stopped
        /\ waiting' = waiting /\ target' = target /\ outcome' = outcome
    BY <1>2 DEF AwaitReads, TaskInv, TasksTypeOK, Workers
  <2>2. Answer(t) \in {"value", "error"} /\ Answer(t) # None /\ Answer(t) = outcome[t]
    BY <2>1 DEF Answer, TaskInv, OutcomeStored, None
  <2>3. OutcomeStored'
    BY <2>1 DEF TaskInv, OutcomeStored, Answer
  <2>6. /\ reply' \in [Workers -> {None, "value", "error"}] /\ reply'[w] = Answer(t)
        /\ \A u \in Workers \ {w} : reply'[u] = reply[u]
    BY <2>1, <2>2 DEF TaskInv, TasksTypeOK
  <2>7. ASSUME NEW l \in {"run", "join"}, pc' = [pc EXCEPT ![w] = l],
               joined' \subseteq completed
        PROVE  /\ TasksTypeOK' /\ pc'[w] = l /\ \A u \in Workers \ {w} : pc'[u] = pc[u]
    <3>1. /\ pc' \in [Workers -> {"unborn", "run", "await", "join", "notify", "exited"}]
          /\ pc'[w] = l /\ \A u \in Workers \ {w} : pc'[u] = pc[u]
      BY <2>7 DEF TaskInv, TasksTypeOK
    <3>2. completed' = {u \in Tasks : pc'[u] \in {"notify", "exited"}}
      BY <2>1, <3>1 DEF TaskInv, TasksTypeOK, Workers
    <3>3. \A u \in Workers : Blocked(u)' => pc'[u] = "await"
      <4>1. \A u \in Workers : Blocked(u)' => Blocked(u)
        BY <2>1 DEF Blocked
      <4>2. \A u \in Workers : Blocked(u) => pc[u] = "await"
        BY DEF TaskInv, TasksTypeOK
      <4> QED
        BY <2>1, <3>1, <4>1, <4>2
    <3> QED
      BY <2>1, <2>6, <2>7, <3>1, <3>2, <3>3 DEF TaskInv, TasksTypeOK
  <2>4. CASE t \notin joined /\ t # w
    <3>1. /\ joined' = joined \cup {t} /\ joins' = [joins EXCEPT ![t] = @ + 1]
          /\ pc' = [pc EXCEPT ![w] = "join"]
      BY <1>2, <2>4 DEF AwaitReads, Goto
    <3>5. joined' \subseteq completed
      BY <2>1, <3>1 DEF TaskInv, TasksTypeOK
    <3>2. TasksTypeOK'
      BY <2>7, <3>1, <3>5
    <3>3. JoinsCounted'
      BY <2>1, <2>4, <3>1 DEF TaskInv, JoinsCounted
    <3>4. AwaitsSound'
      <4>1. pc'[w] = "join" /\ \A u \in Workers \ {w} : pc'[u] = pc[u]
        BY <2>7, <3>1, <3>5
      <4> QED
        BY <2>1, <2>2, <2>4, <2>6, <4>1 DEF TaskInv, AwaitsSound
    <3> QED
      BY <2>3, <3>2, <3>3, <3>4 DEF TaskInv
  <2>5. CASE ~(t \notin joined /\ t # w)
    <3>1. /\ joined' = joined /\ joins' = joins
          /\ pc' = [pc EXCEPT ![w] = "run"]
      BY <1>2, <2>5 DEF AwaitReads, Goto
    <3>5. joined' \subseteq completed
      BY <2>1, <3>1 DEF TaskInv, TasksTypeOK
    <3>2. TasksTypeOK'
      BY <2>7, <3>1, <3>5
    <3>3. JoinsCounted'
      BY <3>1 DEF TaskInv, JoinsCounted
    <3>4. AwaitsSound'
      <4>1. pc'[w] = "run" /\ \A u \in Workers \ {w} : pc'[u] = pc[u]
        BY <2>7, <3>1, <3>5
      <4> QED
        BY <2>1, <2>2, <2>6, <4>1 DEF TaskInv, AwaitsSound
    <3> QED
      BY <2>3, <3>2, <3>3, <3>4 DEF TaskInv
  <2> QED
    BY <2>4, <2>5
<1>3. CASE JoinReturns(w)
  <2> USE <1>3 DEF JoinReturns, stateVars, awaitVars, Goto
  <2>1. TasksTypeOK'
    BY DEF TaskInv, TasksTypeOK, Workers, Blocked
  <2>2. JoinsCounted' /\ OutcomeStored'
    BY DEF TaskInv, JoinsCounted, OutcomeStored, Answer
  <2>3. AwaitsSound'
    BY DEF TaskInv, TasksTypeOK, AwaitsSound
  <2> QED
    BY <2>1, <2>2, <2>3 DEF TaskInv
<1> QED
  BY <1>1, <1>2, <1>3 DEF AwaitStep

(* Every step of tasks and callers keeps the invariant.                    *)
LEMMA TaskStep == TaskInv /\ [Next]_vars => TaskInv'
<1> SUFFICES ASSUME TaskInv, [Next]_vars PROVE TaskInv'
  OBVIOUS
<1>1. CASE Next
  BY <1>1, SpawnKeepsInv, AwaitTaskKeepsInv, CancelKeepsInv, RunnerEndsKeepsInv,
     WorkerExitsKeepsInv, AwaitStepKeepsInv DEF Next
<1>2. CASE UNCHANGED vars
  BY <1>2 DEF vars, stateVars, awaitVars, TaskInv, TasksTypeOK, JoinsCounted,
              OutcomeStored, AwaitsSound, Blocked, Answer
<1> QED
  BY <1>1, <1>2

-----------------------------------------------------------------------------
(* Groups: the steps. *)

(* A group only makes steps that any program may make. *)
LEMMA GroupMakesTaskSteps == [GroupNext]_allVars => [Next]_vars
<1> SUFFICES ASSUME [GroupNext]_allVars PROVE [Next]_vars
  OBVIOUS
<1>0. Main \in Workers /\ Tasks \subseteq Workers
  BY DEF Workers
<1>1. ASSUME NEW t \in Tasks, GroupSpawn(t) PROVE Next
  BY <1>0, <1>1 DEF GroupSpawn, Next
<1>2. CASE GroupWait \/ CollectResult \/ CollectJoin \/ GroupReturns
  BY <1>2 DEF GroupWait, CollectResult, CollectJoin, GroupReturns
<1>3. CASE GroupJoin
  <2>1. AwaitTask(Main, group[at])
    BY <1>3 DEF GroupJoin
  <2>2. group[at] \in Tasks
    BY <1>0, <2>1, TasksAssumption DEF AwaitTask
  <2> QED
    BY <1>0, <2>1, <2>2 DEF Next
<1>4. ASSUME NEW w \in Workers, AwaitStep(w) PROVE Next
  BY <1>4 DEF Next
<1>5. ASSUME NEW w \in Tasks, OtherStep(w) PROVE Next
  BY <1>0, <1>5 DEF OtherStep, Next
<1>6. ASSUME NEW t \in Tasks, NEW o \in {"value", "error"}, RunnerEnds(t, o) PROVE Next
  BY <1>6 DEF Next
<1>7. ASSUME NEW t \in Tasks, WorkerExits(t) PROVE Next
  BY <1>7 DEF Next
<1>8. CASE UNCHANGED allVars
  BY <1>8 DEF allVars
<1> QED
  BY <1>0, <1>1, <1>2, <1>3, <1>4, <1>5, <1>6, <1>7, <1>8 DEF GroupNext, WaitStep

(* A new group has no task and no failure.                                 *)
LEMMA GroupInitInv == GroupInit => TaskInv /\ GroupInv
<1> SUFFICES ASSUME GroupInit PROVE TaskInv /\ GroupInv
  OBVIOUS
<1>1. TaskInv
  BY TaskInit DEF GroupInit
<1>2. <<>> \in Seq(Tasks) /\ Len(<<>>) = 0
  BY EmptySeq
<1>3. GroupTypeOK
  <2>1. group \in Seq(Tasks) /\ at \in 1 .. Len(group) + 1
    BY <1>2 DEF GroupInit
  <2> QED
    BY <2>1 DEF GroupInit, GroupTypeOK
<1>4. Collected
  BY DEF GroupInit, Collected
<1> QED
  BY <1>1, <1>3, <1>4 DEF GroupInit, GroupInv

(* What is over stays over, with its outcome. *)
LEMMA CompletedStays ==
  ASSUME TaskInv, [Next]_vars
  PROVE  /\ completed \subseteq completed'
         /\ \A t \in completed : outcome'[t] = outcome[t]
<1>1. ASSUME NEW t \in Tasks, NEW o \in {"value", "error"}, RunnerEnds(t, o)
      PROVE  completed \subseteq completed' /\ \A u \in completed : outcome'[u] = outcome[u]
  <2>1. t \notin completed
    BY <1>1 DEF RunnerEnds, TaskInv, TasksTypeOK
  <2> QED
    BY <1>1, <2>1 DEF RunnerEnds, TaskInv, OutcomeStored, TasksTypeOK
<1>2. CASE completed' = completed /\ outcome' = outcome
  BY <1>2
<1> QED
  BY <1>1, <1>2 DEF Next, SpawnTask, AwaitTask, CancelTask, WorkerExits, AwaitStep, AwaitBlocks,
     AwaitReads, JoinReturns, stateVars, vars

(* ... so a step of the tasks takes nothing away from what wait knows. *)
LEMMA CollectedStays ==
  ASSUME TaskInv, [Next]_vars, UNCHANGED groupVars, GroupTypeOK, Collected
  PROVE  Collected'
<1>1. /\ completed \subseteq completed'
      /\ \A t \in completed : outcome'[t] = outcome[t]
  BY CompletedStays
<1>2. /\ kind' = kind /\ group' = group /\ at' = at
      /\ firstError' = firstError /\ cancelledCtx' = cancelledCtx
  BY DEF groupVars
<1>3. \A i \in 1 .. at - 1 :
        group[i] \in completed /\ outcome'[group[i]] = outcome[group[i]]
  BY <1>1 DEF Collected
<1>4. \A i \in 1 .. at - 1 : Failed(group[i])' <=> Failed(group[i])
  BY <1>2, <1>3 DEF Failed
<1>5. CASE firstError = None
  BY <1>1, <1>2, <1>3, <1>4, <1>5 DEF Collected
<1>6. CASE firstError # None
  <2>1. PICK k \in 1 .. at - 1 : /\ group[k] = firstError /\ Failed(group[k])
                                /\ \A j \in 1 .. k - 1 : ~Failed(group[j])
    BY <1>6 DEF Collected
  <2>2. \A j \in 1 .. k - 1 : j \in 1 .. at - 1
    BY <2>1 DEF GroupTypeOK
  <2>3. \A j \in 1 .. k - 1 : ~Failed(group[j])'
    BY <1>4, <2>1, <2>2
  <2> QED
    BY <1>1, <1>2, <1>3, <1>4, <1>6, <2>1, <2>3 DEF Collected
<1> QED
  BY <1>5, <1>6

(* The threads of the tasks do not touch the await of the main thread. *)
LEMMA MainUntouched ==
  ASSUME TaskInv,
         \/ \E t \in Tasks, o \in {"value", "error"} : RunnerEnds(t, o)
         \/ \E t \in Tasks : WorkerExits(t)
         \/ \E w \in Tasks : OtherStep(w)
  PROVE  pc'[Main] = pc[Main] /\ target'[Main] = target[Main] /\ reply'[Main] = reply[Main]
<1>0. Main \notin Tasks /\ Main \in Workers /\ Tasks \subseteq Workers
  BY TasksAssumption DEF Workers
<1>1. /\ pc \in [Workers -> {"unborn", "run", "await", "join", "notify", "exited"}]
      /\ target \in [Workers -> Tasks \cup {None}]
      /\ reply \in [Workers -> {None, "value", "error"}]
  BY DEF TaskInv, TasksTypeOK
<1>2. ASSUME NEW t \in Tasks, NEW o \in {"value", "error"}, RunnerEnds(t, o)
      PROVE  pc'[Main] = pc[Main] /\ target' = target /\ reply' = reply
  BY <1>0, <1>1, <1>2 DEF RunnerEnds, Goto, awaitVars
<1>3. ASSUME NEW t \in Tasks, WorkerExits(t)
      PROVE  pc'[Main] = pc[Main] /\ target' = target /\ reply' = reply
  BY <1>0, <1>1, <1>3 DEF WorkerExits, Goto, awaitVars
<1>4. ASSUME NEW w \in Tasks, OtherStep(w)
      PROVE  pc'[Main] = pc[Main] /\ target'[Main] = target[Main] /\ reply'[Main] = reply[Main]
  <2>1. ASSUME NEW t \in Tasks, SpawnTask(w, t)
        PROVE  pc'[Main] = pc[Main] /\ target' = target /\ reply' = reply
    BY <1>0, <1>1, <2>1 DEF SpawnTask, Goto, awaitVars
  <2>2. ASSUME NEW t \in Tasks, AwaitTask(w, t)
        PROVE  pc'[Main] = pc[Main] /\ target'[Main] = target[Main] /\ reply'[Main] = reply[Main]
    BY <1>0, <1>1, <2>2 DEF AwaitTask, Goto
  <2>3. ASSUME NEW t \in Tasks, CancelTask(w, t)
        PROVE  pc' = pc /\ target' = target /\ reply' = reply
    BY <2>3 DEF CancelTask, awaitVars
  <2>4. ASSUME AwaitStep(w)
        PROVE  pc'[Main] = pc[Main] /\ target'[Main] = target[Main] /\ reply'[Main] = reply[Main]
    BY <1>0, <1>1, <2>4 DEF AwaitStep, AwaitBlocks, AwaitReads, JoinReturns, Goto, awaitVars
  <2> QED
    BY <1>4, <2>1, <2>2, <2>3, <2>4 DEF OtherStep
<1> QED
  BY <1>2, <1>3, <1>4

(* A task added to a group, before any is collected, comes last.           *)
LEMMA GroupSpawnKeepsInv ==
  ASSUME TaskInv, GroupInv, NEW t \in Tasks, GroupSpawn(t)
  PROVE  GroupInv'
<1>1. /\ gpc = "add" /\ group' = Append(group, t) /\ kind' = kind /\ at' = at /\ gpc' = gpc
      /\ firstError' = firstError /\ cancelledCtx' = cancelledCtx
  BY DEF GroupSpawn
<1>2. GroupTypeOK /\ Collected /\ at = 1 /\ group \in Seq(Tasks)
  BY <1>1 DEF GroupInv, GroupTypeOK
<1>3. firstError = None /\ ~cancelledCtx
  BY <1>2 DEF Collected
<1>4. group' \in Seq(Tasks) /\ Len(group') = Len(group) + 1 /\ Len(group) \in Nat
  BY <1>1, <1>2, AppendProperties
<1>5. at' \in 1 .. Len(group') + 1
  BY <1>1, <1>2, <1>4
<1>6. GroupTypeOK'
  BY <1>1, <1>2, <1>4, <1>5 DEF GroupTypeOK
<1>7. Collected'
  BY <1>1, <1>2, <1>3 DEF Collected
<1> QED
  BY <1>1, <1>2, <1>6, <1>7 DEF GroupInv

(* One more task has been gone through without an error being met. *)
LEMMA OneMoreCollected ==
  ASSUME TaskInv, GroupTypeOK, Collected, at <= Len(group),
         UNCHANGED <<completed, outcome, kind, group>>, at' = at + 1,
         group[at] \in completed,
         \/ /\ ~Failed(group[at]) \/ firstError # None
            /\ firstError' = firstError /\ cancelledCtx' = cancelledCtx
         \/ /\ Failed(group[at]) /\ firstError = None /\ kind = "errorgroup"
            /\ firstError' = group[at] /\ cancelledCtx' = TRUE
  PROVE  Collected'
<1>0. completed' = completed /\ outcome' = outcome /\ kind' = kind /\ group' = group
  OBVIOUS
<1>1. at \in Nat \ {0} /\ 1 .. at' - 1 = (1 .. at - 1) \cup {at} /\ at \in 1 .. at' - 1
  BY DEF GroupTypeOK
<1>2. \A i \in 1 .. at' - 1 : group[i] \in completed
  BY <1>1 DEF Collected
<1>3. CASE firstError # None
  <2>1. /\ firstError' = firstError /\ cancelledCtx' = cancelledCtx
    BY <1>3
  <2>2. PICK k \in 1 .. at - 1 : /\ group[k] = firstError /\ Failed(group[k])
                                /\ \A j \in 1 .. k - 1 : ~Failed(group[j])
    BY <1>3 DEF Collected
  <2> QED
    BY <1>0, <1>1, <1>2, <1>3, <2>1, <2>2 DEF Collected, Failed
<1>4. CASE firstError = None /\ ~Failed(group[at])
  <2>1. /\ firstError' = firstError /\ cancelledCtx' = cancelledCtx
        /\ \A i \in 1 .. at' - 1 : ~Failed(group[i])
    BY <1>1, <1>4 DEF Collected
  <2> QED
    BY <1>0, <1>2, <1>4, <2>1 DEF Collected, Failed
<1>5. CASE firstError = None /\ Failed(group[at])
  <2>1. /\ firstError' = group[at] /\ cancelledCtx' = TRUE /\ kind = "errorgroup"
    BY <1>5
  <2>2. firstError' # None
    BY <1>1, <2>1, TasksAssumption DEF TaskInv, TasksTypeOK
  <2>3. \A j \in 1 .. at - 1 : ~Failed(group[j])
    BY <1>5 DEF Collected
  <2> QED
    BY <1>0, <1>1, <1>2, <1>5, <2>1, <2>2, <2>3 DEF Collected, Failed
<1> QED
  BY <1>3, <1>4, <1>5

(* The await of the main thread has returned. *)
LEMMA MainAnswered ==
  ASSUME TaskInv, GroupInv, gpc = "joining", pc[Main] = "run"
  PROVE  /\ group[at] \in completed /\ at <= Len(group)
         /\ reply[Main] = "error" <=> Failed(group[at])
BY DEF GroupInv, TaskInv, AwaitsSound, Failed, Workers

(* Each collected answer is that of the next task in the group.            *)
LEMMA CollectKeepsInv ==
  ASSUME TaskInv, GroupInv, CollectResult \/ CollectJoin
  PROVE  GroupInv'
<1>1. /\ gpc = "joining" /\ pc[Main] = "run" /\ kind' = kind /\ group' = group
      /\ completed' = completed /\ outcome' = outcome
  BY DEF CollectResult, CollectJoin, vars, stateVars
<1>2. /\ GroupTypeOK /\ Collected /\ group[at] \in completed /\ at <= Len(group)
      /\ reply[Main] = "error" <=> Failed(group[at])
  BY <1>1, MainAnswered DEF GroupInv
<1>3. at + 1 \in 1 .. Len(group) + 1 /\ group[at] \in Tasks
  <2>1. at \in 1 .. Len(group) + 1 /\ Len(group) \in Nat
    BY <1>2 DEF GroupTypeOK
  <2>2. group[at] \in Tasks
    BY <1>2 DEF TaskInv, TasksTypeOK
  <2> QED
    BY <1>2, <2>1, <2>2
<1>4. CASE CollectResult
  <2>1. kind = "errorgroup" /\ at' = at + 1 /\ gpc' = "loop"
    BY <1>4 DEF CollectResult
  <2>2. IF Failed(group[at]) /\ firstError = None
          THEN firstError' = group[at] /\ cancelledCtx' = TRUE
          ELSE firstError' = firstError /\ cancelledCtx' = cancelledCtx
    BY <1>2, <1>4 DEF CollectResult
  <2>3. Collected'
    BY <1>1, <1>2, <2>1, <2>2, OneMoreCollected
  <2>4. GroupTypeOK'
    <3>1. firstError' \in Tasks \cup {None} /\ cancelledCtx' \in BOOLEAN
      BY <1>2, <1>3, <2>2 DEF GroupTypeOK
    <3> QED
      BY <1>1, <1>2, <1>3, <2>1, <3>1 DEF GroupTypeOK
  <2> QED
    BY <2>1, <2>3, <2>4 DEF GroupInv
<1>5. CASE CollectJoin /\ reply[Main] = "error"
  <2>1. gpc' = "raised" /\ firstError' = group[at] /\ at' = at /\ cancelledCtx' = cancelledCtx
    BY <1>5 DEF CollectJoin
  <2>2. GroupTypeOK'
    BY <1>1, <1>2, <1>3, <2>1 DEF GroupTypeOK
  <2>3. kind = "waitgroup"
    BY <1>5 DEF CollectJoin
  <2>4. \A i \in 1 .. at - 1 : group[i] \in completed /\ ~Failed(group[i])
    BY <1>2, <2>3 DEF Collected
  <2>5. \A i \in 1 .. at : i = at \/ i \in 1 .. at - 1
    BY <1>2 DEF GroupTypeOK
  <2>6. \A i \in 1 .. at : group[i] \in completed
    BY <1>2, <2>4, <2>5
  <2>7. StoppedAtFailure'
    BY <1>1, <1>2, <1>5, <2>1, <2>4, <2>6 DEF StoppedAtFailure, Failed
  <2> QED
    BY <1>1, <2>1, <2>2, <2>3, <2>7 DEF GroupInv
<1>6. CASE CollectJoin /\ reply[Main] # "error"
  <2>1. /\ gpc' = "loop" /\ at' = at + 1 /\ firstError' = firstError
        /\ cancelledCtx' = cancelledCtx
    BY <1>6 DEF CollectJoin
  <2>2. Collected'
    BY <1>1, <1>2, <1>6, <2>1, OneMoreCollected
  <2>3. GroupTypeOK'
    BY <1>1, <1>2, <1>3, <2>1 DEF GroupTypeOK
  <2> QED
    BY <2>1, <2>2, <2>3 DEF GroupInv
<1> QED
  BY <1>4, <1>5, <1>6

(* Steps of the tasks alone. *)
LEMMA TaskStepKeepsGroupInv ==
  ASSUME TaskInv, GroupInv, [Next]_vars, UNCHANGED groupVars,
         target'[Main] = target[Main],
         pc'[Main] = "run" => reply'[Main] # None \/ (pc[Main] = "run" /\ reply'[Main] = reply[Main])
  PROVE  GroupInv'
<1>1. /\ kind' = kind /\ group' = group /\ at' = at /\ gpc' = gpc
      /\ firstError' = firstError /\ cancelledCtx' = cancelledCtx
  BY DEF groupVars
<1>2. GroupTypeOK /\ GroupTypeOK'
  BY <1>1 DEF GroupInv, GroupTypeOK
<1>3. gpc # "raised" => Collected'
  BY <1>2, CollectedStays DEF GroupInv
<1>4. ASSUME StoppedAtFailure PROVE StoppedAtFailure'
  <2>1. completed \subseteq completed' /\ \A t \in completed : outcome'[t] = outcome[t]
    BY CompletedStays
  <2>2. \A i \in 1 .. at : group[i] \in completed' /\ (Failed(group[i])' <=> Failed(group[i]))
    BY <1>1, <1>4, <2>1 DEF StoppedAtFailure, Failed
  <2>3. at \in 1 .. at /\ \A i \in 1 .. at - 1 : i \in 1 .. at
    BY <1>2 DEF GroupTypeOK
  <2> QED
    BY <1>1, <1>4, <2>2, <2>3 DEF StoppedAtFailure
<1> QED
  BY <1>1, <1>2, <1>3, <1>4 DEF GroupInv

(* Every step of the group and of its tasks keeps the invariant.           *)
LEMMA GroupStep == TaskInv /\ GroupInv /\ [GroupNext]_allVars => GroupInv'
<1> SUFFICES ASSUME TaskInv, GroupInv, [GroupNext]_allVars PROVE GroupInv'
  OBVIOUS
<1>0. [Next]_vars
  BY GroupMakesTaskSteps
<1>1. ASSUME NEW t \in Tasks, GroupSpawn(t) PROVE GroupInv'
  BY <1>1, GroupSpawnKeepsInv
<1>2. CASE GroupWait \/ GroupReturns
  <2>1. /\ kind' = kind /\ group' = group /\ at' = at /\ gpc' \in {"loop", "returned"}
        /\ firstError' = firstError /\ cancelledCtx' = cancelledCtx
        /\ completed' = completed /\ outcome' = outcome /\ gpc # "raised"
        /\ gpc' = "returned" => at > Len(group)
    BY <1>2 DEF GroupWait, GroupReturns, vars, stateVars
  <2>2. GroupTypeOK' /\ Collected'
    BY <2>1 DEF GroupInv, GroupTypeOK, Collected, Failed
  <2>3. gpc' = "returned" => at' = Len(group') + 1
    BY <2>1 DEF GroupInv, GroupTypeOK
  <2> QED
    BY <2>1, <2>2, <2>3 DEF GroupInv
<1>3. CASE GroupJoin
  <2>1. /\ kind' = kind /\ group' = group /\ at' = at /\ gpc' = "joining" /\ gpc = "loop"
        /\ firstError' = firstError /\ cancelledCtx' = cancelledCtx
        /\ completed' = completed /\ outcome' = outcome /\ at <= Len(group)
    BY <1>3 DEF GroupJoin, AwaitTask, stateVars
  <2>2. GroupTypeOK' /\ Collected'
    BY <2>1 DEF GroupInv, GroupTypeOK, Collected, Failed
  <2>3. target'[Main] = group[at] /\ pc'[Main] # "run"
    BY <1>3 DEF GroupJoin, AwaitTask, Goto, TaskInv, TasksTypeOK, Workers
  <2> QED
    BY <2>1, <2>2, <2>3 DEF GroupInv
<1>4. CASE CollectResult \/ CollectJoin
  BY <1>4, CollectKeepsInv
<1>5. CASE AwaitStep(Main) /\ UNCHANGED groupVars
  <2>1. /\ target' = target
        /\ pc'[Main] = "run" => reply'[Main] # None
    <3>0. /\ Main \in Workers
          /\ pc \in [Workers -> {"unborn", "run", "await", "join", "notify", "exited"}]
          /\ reply \in [Workers -> {None, "value", "error"}]
      BY DEF TaskInv, TasksTypeOK, Workers
    <3>1. CASE AwaitBlocks(Main)
      BY <3>1 DEF AwaitBlocks, awaitVars
    <3>2. CASE AwaitReads(Main)
      <4>1. target' = target /\ reply'[Main] = Answer(target[Main])
        BY <3>0, <3>2 DEF AwaitReads
      <4>2. Answer(target[Main]) # None
        BY DEF Answer, None
      <4> QED
        BY <4>1, <4>2
    <3>3. CASE JoinReturns(Main)
      BY <3>0, <3>3 DEF JoinReturns, awaitVars, TaskInv, AwaitsSound
    <3> QED
      BY <1>5, <3>1, <3>2, <3>3 DEF AwaitStep
  <2> QED
    BY <1>0, <1>5, <2>1, TaskStepKeepsGroupInv
<1>6. CASE \/ \E t \in Tasks, o \in {"value", "error"} : RunnerEnds(t, o) /\ UNCHANGED groupVars
           \/ \E t \in Tasks : WorkerExits(t) /\ UNCHANGED groupVars
           \/ \E w \in Tasks : OtherStep(w)
  <2>1. UNCHANGED groupVars
    BY <1>6 DEF OtherStep
  <2>2. pc'[Main] = pc[Main] /\ target'[Main] = target[Main] /\ reply'[Main] = reply[Main]
    BY <1>6, MainUntouched
  <2> QED
    BY <1>0, <2>1, <2>2, TaskStepKeepsGroupInv
<1>7. CASE UNCHANGED allVars
  <2>1. UNCHANGED groupVars /\ pc' = pc /\ target' = target /\ reply' = reply
    BY <1>7 DEF allVars, vars, awaitVars
  <2> QED
    BY <1>0, <2>1, TaskStepKeepsGroupInv
<1> QED
  BY <1>1, <1>2, <1>3, <1>4, <1>5, <1>6, <1>7 DEF GroupNext, WaitStep

-----------------------------------------------------------------------------
(* The theorems. *)

(* The invariant of tasks holds in every reachable state.                  *)
LEMMA TaskInvAlways == Spec => []TaskInv
  BY TaskInit, TaskStep, PTL DEF Spec

(* What the invariant of tasks is for.                                     *)
LEMMA TaskInvImplies == TaskInv => JoinedOnce /\ AwaitAnswersOutcome
<1> SUFFICES ASSUME TaskInv PROVE JoinedOnce /\ AwaitAnswersOutcome
  OBVIOUS
<1>1. \A t \in Tasks : joins[t] <= 1
  BY DEF TaskInv, JoinsCounted
<1> QED
  BY <1>1 DEF TaskInv, AwaitsSound, JoinedOnce, AwaitAnswersOutcome

(* In every program: at most one thread calls join on a task's jthread,    *)
(* and it is never the task's own.                                         *)
THEOREM JoinedOnceTheorem == Spec => []JoinedOnce
  BY TaskInvAlways, TaskInvImplies, PTL

(* In every program: an await answers what the runner left, whatever woke  *)
(* it and whoever joined the worker.                                       *)
THEOREM AwaitAnswersTheorem == Spec => []AwaitAnswersOutcome
  BY TaskInvAlways, TaskInvImplies, PTL

(* Both invariants hold in every state that a group reaches.               *)
LEMMA GroupInvAlways == GroupSpec => [](TaskInv /\ GroupInv)
<1>1. TaskInv /\ GroupInv /\ [GroupNext]_allVars => TaskInv' /\ GroupInv'
  BY TaskStep, GroupStep, GroupMakesTaskSteps
<1> QED
  BY <1>1, GroupInitInv, PTL DEF GroupSpec

(* The types of the tasks' state in a program with a group. *)
THEOREM TasksTypeTheorem == GroupSpec => []TasksTypeOK
<1>1. TaskInv => TasksTypeOK
  BY DEF TaskInv
<1> QED
  BY <1>1, GroupInvAlways, PTL

(* errorgroup.wait returns with all tasks over and the first error in the  *)
(* order of the list, its context cancelled exactly then; waitgroup.wait   *)
(* returns only when all tasks are over and none has failed, and raises at *)
(* the first failed task of the list.                                      *)
THEOREM GroupResultTheorem == GroupSpec => []GroupResult
<1>1. GroupInv => GroupResult
  <2> SUFFICES ASSUME GroupInv PROVE GroupResult
    OBVIOUS
  <2>1. CASE gpc = "returned"
    <3>1. Collected /\ at - 1 = Len(group)
      BY <2>1 DEF GroupInv, GroupTypeOK
    <3>2. Members \subseteq completed
      BY <3>1 DEF Collected, Members
    <3> QED
      BY <2>1, <3>1, <3>2 DEF GroupResult, Collected, Members
  <2> QED
    BY <2>1 DEF GroupInv, GroupResult
<1> QED
  BY <1>1, GroupInvAlways, PTL
=============================================================================
