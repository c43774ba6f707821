----------------------------- MODULE TaskGroups -----------------------------
(***************************************************************************)
(* std.concurrent.errorgroup and std.concurrent.waitgroup                  *)
(* (stdlib/std/concurrent): the main thread spawns tasks into a group and  *)
(* waits for it.  Both join the tasks one after the other, in the order in *)
(* which they were added.                                                  *)
(***************************************************************************)
EXTENDS Tasks, Sequences

VARIABLES
  kind,         \* "errorgroup" or "waitgroup"
  group,        \* ErrorGroup.tasks, WaitGroup.tasks
  at,           \* i of the loop in wait
  gpc,          \* "add", "loop", "joining", "returned" or "raised"
  firstError,   \* first_error
  cancelledCtx  \* the group context is cancelled

groupVars == <<kind, group, at, gpc, firstError, cancelledCtx>>
allVars == <<vars, groupVars>>

GroupInit ==
  /\ Init
  /\ kind \in {"errorgroup", "waitgroup"}
  /\ group = <<>> /\ at = 1 /\ gpc = "add"
  /\ firstError = None
  /\ cancelledCtx = FALSE

Members == {group[i] : i \in 1 .. Len(group)}

(* spawn: start the task, then add it. *)
GroupSpawn(t) ==
  /\ gpc = "add"
  /\ SpawnTask(Main, t)
  /\ group' = Append(group, t)
  /\ UNCHANGED <<kind, at, gpc, firstError, cancelledCtx>>

GroupWait ==
  /\ gpc = "add" /\ group # <<>>
  /\ gpc' = "loop"
  /\ UNCHANGED <<vars, kind, group, at, firstError, cancelledCtx>>

(* task.join_result or task.join of the next task. *)
GroupJoin ==
  /\ gpc = "loop" /\ at <= Len(group)
  /\ AwaitTask(Main, group[at])
  /\ gpc' = "joining"
  /\ UNCHANGED <<kind, group, at, firstError, cancelledCtx>>

(* Faulty variant: each error replaces the one before. *)
CollectKeepsLast ==
  /\ gpc = "joining" /\ kind = "errorgroup" /\ pc[Main] = "run"
  /\ firstError' = IF reply[Main] = "error" THEN group[at] ELSE firstError
  /\ cancelledCtx' = (cancelledCtx \/ reply[Main] = "error")
  /\ at' = at + 1
  /\ gpc' = "loop"
  /\ UNCHANGED <<vars, kind, group>>

(* errorgroup.wait: the first error is kept and cancels the context. *)
CollectResult ==
  /\ gpc = "joining" /\ kind = "errorgroup" /\ pc[Main] = "run"
  /\ IF reply[Main] = "error" /\ firstError = None
       THEN firstError' = group[at] /\ cancelledCtx' = TRUE
       ELSE UNCHANGED <<firstError, cancelledCtx>>
  /\ at' = at + 1
  /\ gpc' = "loop"
  /\ UNCHANGED <<vars, kind, group>>

(* waitgroup.wait: an error of the task becomes an error of the join, and  *)
(* ends wait there.                                                        *)
CollectJoin ==
  /\ gpc = "joining" /\ kind = "waitgroup" /\ pc[Main] = "run"
  /\ IF reply[Main] = "error"
       THEN gpc' = "raised" /\ firstError' = group[at] /\ UNCHANGED at
       ELSE gpc' = "loop" /\ at' = at + 1 /\ UNCHANGED firstError
  /\ UNCHANGED <<vars, kind, group, cancelledCtx>>

GroupReturns ==
  /\ gpc = "loop" /\ at > Len(group)
  /\ gpc' = "returned"
  /\ UNCHANGED <<vars, kind, group, at, firstError, cancelledCtx>>

WaitStep ==
  GroupJoin \/ CollectResult \/ CollectJoin \/ GroupReturns
    \/ (AwaitStep(Main) /\ UNCHANGED groupVars)

(* Tasks of the group spawn, await and cancel tasks too; a task that they  *)
(* spawn is not in the group.                                              *)
OtherStep(w) ==
  /\ AwaitStep(w) \/ \E t \in Tasks : SpawnTask(w, t) \/ AwaitTask(w, t) \/ CancelTask(w, t)
  /\ UNCHANGED groupVars

GroupNext ==
  \/ \E t \in Tasks : GroupSpawn(t)
  \/ GroupWait
  \/ WaitStep
  \/ \E t \in Tasks, o \in {"value", "error"} :
       /\ RunnerEnds(t, o)
       /\ UNCHANGED groupVars
  \/ \E t \in Tasks : WorkerExits(t) /\ UNCHANGED groupVars
  \/ \E w \in Tasks : OtherStep(w)

(* Threads that can run do run; a task need not end. *)
GroupFairness ==
  /\ WF_allVars(WaitStep)
  /\ \A w \in Tasks : WF_allVars(AwaitStep(w) /\ UNCHANGED groupVars)
  /\ \A t \in Tasks : WF_allVars(WorkerExits(t) /\ UNCHANGED groupVars)

GroupSpec == GroupInit /\ [][GroupNext]_allVars /\ GroupFairness

-----------------------------------------------------------------------------
(* Properties. *)

Failed(t) == outcome[t] = "error"

\* the loop of wait has stopped at a task that failed, all before it succeeded
StoppedAtFailure ==
  /\ at <= Len(group) /\ firstError = group[at] /\ Failed(group[at])
  /\ \A i \in 1 .. at : group[i] \in completed
  /\ \A i \in 1 .. at - 1 : ~Failed(group[i])

(* What wait answers.  errorgroup.wait returns when all tasks are over,    *)
(* with an error if there was one and with the context cancelled exactly   *)
(* then.  The error is that of the first failed task in the order of the   *)
(* list, whichever failed first.  waitgroup.wait returns only when all     *)
(* tasks are over and none has failed; it raises at the first failed task  *)
(* of the list, and what comes after that task may still be running.       *)
GroupResult ==
  /\ gpc = "returned" =>
       /\ Members \subseteq completed
       /\ IF firstError = None
            THEN (\A t \in Members : ~Failed(t)) /\ ~cancelledCtx
            ELSE /\ kind = "errorgroup" /\ cancelledCtx
                 /\ \E k \in 1 .. Len(group) :
                      /\ group[k] = firstError /\ Failed(group[k])
                      /\ \A j \in 1 .. k - 1 : ~Failed(group[j])
  /\ gpc = "raised" => kind = "waitgroup" /\ StoppedAtFailure

(* The documentation of errorgroup: once a task of a group that is waited  *)
(* for has failed, the context of the group is cancelled, so that the      *)
(* other tasks can stop.                                                   *)
FailureCancels ==
  (kind = "errorgroup" /\ gpc \in {"loop", "joining"} /\ \E t \in Members : Failed(t)) ~> cancelledCtx

(* When all tasks of the group are over, wait ends, also if it is blocked  *)
(* on one of them at that moment.                                          *)
WaitEnds ==
  (gpc \in {"loop", "joining"} /\ Members \subseteq completed) ~> gpc \in {"returned", "raised"}
=============================================================================
