------------------------------ MODULE Channel ------------------------------
(***************************************************************************)
(* One channel of SharedRuntimeChannels.cpp and the tasks that use it.     *)
(* Every operation runs under state->mutex and gives it up only inside     *)
(* condition_variable::wait, so a step is the code from one acquisition of *)
(* the mutex to the next wait or return.  The two condition variables are  *)
(* the sets of tasks blocked on them; a task that was notified evaluates   *)
(* its predicate again once it gets the mutex.                             *)
(*                                                                         *)
(* Capacity 0 is a rendezvous: the sender leaves its value in a slot and   *)
(* waits, on the same cvNotFull as the senders that wait for the slot,     *)
(* until a receiver has taken it.                                          *)
(***************************************************************************)
EXTENDS Naturals, Sequences, FiniteSets

CONSTANTS
  Senders, Receivers,  \* tasks that call channel.send and channel.recv
  Capacities,          \* the capacities that channels are made with
  MaxSends,            \* bound on the sends of one task
  MaxRecvs             \* bound on the receives of one task

ASSUME ChannelAssumption ==
  /\ Senders \cap Receivers = {}
  /\ Capacities \subseteq Nat /\ MaxSends \in Nat /\ MaxRecvs \in Nat

Tasks == Senders \cup Receivers
Messages == Senders \X (1 .. MaxSends)   \* the k-th value of a sender
NoValue == <<>>                          \* std::monostate

VARIABLES
  capacity,    \* ChannelState::capacity
  queue,       \* ChannelState::queue
  closed,      \* ChannelState::closed
  ready,       \* ChannelState::rendezvousReady
  slot,        \* ChannelState::rendezvousValue
  notFull,     \* tasks blocked on cvNotFull
  notEmpty,    \* tasks blocked on cvNotEmpty
  pc,          \* "idle", or where the call of a task is
  calls,       \* number of calls a task has begun
  accepted,    \* history: values put into the channel, in order
  received,    \* history: values taken out, in order
  replies      \* history: what the returned calls of a task answered

chanVars == <<capacity, queue, closed, ready, slot>>
vars == <<chanVars, notFull, notEmpty, pc, calls, accepted, received, replies>>

Init ==
  /\ capacity \in Capacities
  /\ queue = <<>> /\ closed = FALSE /\ ready = FALSE /\ slot = NoValue
  /\ notFull = {} /\ notEmpty = {}
  /\ pc = [t \in Tasks |-> "idle"]
  /\ calls = [t \in Tasks |-> 0]
  /\ accepted = <<>> /\ received = <<>>
  /\ replies = [t \in Tasks |-> <<>>]

-----------------------------------------------------------------------------

Runnable(t) == t \notin notFull \cup notEmpty

(* condition_variable::notify_one: some blocked task, if there is one. *)
NotifyOne(w, new) == IF w = {} THEN new = {} ELSE \E t \in w : new = w \ {t}

Returns(t, answer) ==
  /\ pc' = [pc EXCEPT ![t] = "idle"]
  /\ replies' = [replies EXCEPT ![t] = Append(@, answer)]

Message(s) == <<s, calls[s]>>

Send(s) ==
  /\ pc[s] = "idle"
  /\ calls[s] < MaxSends
  /\ calls' = [calls EXCEPT ![s] = @ + 1]
  /\ pc' = [pc EXCEPT ![s] = "send"]
  /\ UNCHANGED <<chanVars, notFull, notEmpty, accepted, received, replies>>

(* A task that was told the channel is closed does not ask again. *)
Recv(r) ==
  /\ pc[r] = "idle"
  /\ calls[r] < MaxRecvs
  /\ \A i \in 1 .. Len(replies[r]) : replies[r][i]
  /\ calls' = [calls EXCEPT ![r] = @ + 1]
  /\ pc' = [pc EXCEPT ![r] = "recv"]
  /\ UNCHANGED <<chanVars, notFull, notEmpty, accepted, received, replies>>

HasRoom == IF capacity = 0 THEN ~ready ELSE Len(queue) < capacity
HasValue == IF capacity = 0 THEN ready ELSE queue # <<>>

(* cvNotFull.wait and cvNotEmpty.wait with a false predicate. *)
SendBlocks(s) ==
  /\ pc[s] \in {"send", "handoff"} /\ Runnable(s)
  /\ ~closed /\ ~HasRoom
  /\ notFull' = notFull \cup {s}
  /\ UNCHANGED <<chanVars, notEmpty, pc, calls, accepted, received, replies>>

RecvBlocks(r) ==
  /\ pc[r] = "recv" /\ Runnable(r)
  /\ ~closed /\ ~HasValue
  /\ notEmpty' = notEmpty \cup {r}
  /\ UNCHANGED <<chanVars, notFull, pc, calls, accepted, received, replies>>

SendClosed(s) ==
  /\ pc[s] = "send" /\ Runnable(s)
  /\ closed
  /\ Returns(s, FALSE)
  /\ UNCHANGED <<chanVars, notFull, notEmpty, calls, accepted, received>>

SendQueues(s) ==
  /\ capacity > 0
  /\ pc[s] = "send" /\ Runnable(s)
  /\ ~closed /\ HasRoom
  /\ queue' = Append(queue, Message(s))
  /\ accepted' = Append(accepted, Message(s))
  /\ NotifyOne(notEmpty, notEmpty')
  /\ Returns(s, TRUE)
  /\ UNCHANGED <<capacity, closed, ready, slot, notFull, calls, received>>

(* Rendezvous: fill the slot, then wait again until it is empty. *)
SendOffers(s) ==
  /\ capacity = 0
  /\ pc[s] = "send" /\ Runnable(s)
  /\ ~closed /\ HasRoom
  /\ slot' = Message(s) /\ ready' = TRUE
  /\ accepted' = Append(accepted, Message(s))
  /\ NotifyOne(notEmpty, notEmpty')
  /\ pc' = [pc EXCEPT ![s] = "handoff"]
  /\ UNCHANGED <<capacity, queue, closed, notFull, calls, received, replies>>

(* Faulty variant: does not wait for a receiver. *)
SendHandedOffAtOnce(s) ==
  /\ pc[s] = "handoff" /\ Runnable(s)
  /\ Returns(s, ~closed)
  /\ UNCHANGED <<chanVars, notFull, notEmpty, calls, accepted, received>>

SendHandedOff(s) ==
  /\ pc[s] = "handoff" /\ Runnable(s)
  /\ closed \/ HasRoom
  /\ Returns(s, ~closed)
  /\ UNCHANGED <<chanVars, notFull, notEmpty, calls, accepted, received>>

(* Faulty variant: closing makes a receiver give up queued values. *)
RecvNothingOnceClosed(r) ==
  /\ pc[r] = "recv" /\ Runnable(r)
  /\ closed
  /\ Returns(r, FALSE)
  /\ UNCHANGED <<chanVars, notFull, notEmpty, calls, accepted, received>>

RecvNothing(r) ==
  /\ pc[r] = "recv" /\ Runnable(r)
  /\ closed /\ ~HasValue
  /\ Returns(r, FALSE)
  /\ UNCHANGED <<chanVars, notFull, notEmpty, calls, accepted, received>>

(* Faulty variant: takes a value and tells nobody. *)
RecvDequeuesSilently(r) ==
  /\ capacity > 0
  /\ pc[r] = "recv" /\ Runnable(r)
  /\ HasValue
  /\ received' = Append(received, Head(queue))
  /\ queue' = Tail(queue)
  /\ Returns(r, TRUE)
  /\ UNCHANGED <<capacity, closed, ready, slot, notFull, notEmpty, calls, accepted>>

(* Faulty variant: takes the newest value. *)
RecvDequeuesNewest(r) ==
  /\ capacity > 0
  /\ pc[r] = "recv" /\ Runnable(r)
  /\ HasValue
  /\ received' = Append(received, queue[Len(queue)])
  /\ queue' = SubSeq(queue, 1, Len(queue) - 1)
  /\ NotifyOne(notFull, notFull')
  /\ Returns(r, TRUE)
  /\ UNCHANGED <<capacity, closed, ready, slot, notEmpty, calls, accepted>>

RecvDequeues(r) ==
  /\ capacity > 0
  /\ pc[r] = "recv" /\ Runnable(r)
  /\ HasValue
  /\ received' = Append(received, Head(queue))
  /\ queue' = Tail(queue)
  /\ NotifyOne(notFull, notFull')
  /\ Returns(r, TRUE)
  /\ UNCHANGED <<capacity, closed, ready, slot, notEmpty, calls, accepted>>

RecvTakes(r) ==
  /\ capacity = 0
  /\ pc[r] = "recv" /\ Runnable(r)
  /\ HasValue
  /\ received' = Append(received, slot)
  /\ slot' = NoValue /\ ready' = FALSE
  /\ NotifyOne(notFull, notFull')
  /\ Returns(r, TRUE)
  /\ UNCHANGED <<capacity, queue, closed, notEmpty, calls, accepted>>

(* Faulty variant: wakes only one of the blocked tasks. *)
CloseNotifiesOne ==
  /\ ~closed
  /\ closed' = TRUE
  /\ NotifyOne(notFull, notFull')
  /\ NotifyOne(notEmpty, notEmpty')
  /\ UNCHANGED <<capacity, queue, ready, slot, pc, calls, accepted, received, replies>>

(* CloseChannel, by any task; closing again answers false. *)
Close ==
  /\ ~closed
  /\ closed' = TRUE
  /\ notFull' = {} /\ notEmpty' = {}
  /\ UNCHANGED <<capacity, queue, ready, slot, pc, calls, accepted, received, replies>>

(* A condition variable may wake a task without a notification. *)
SpuriousWakeup(t) ==
  /\ t \in notFull \cup notEmpty
  /\ notFull' = notFull \ {t}
  /\ notEmpty' = notEmpty \ {t}
  /\ UNCHANGED <<chanVars, pc, calls, accepted, received, replies>>

-----------------------------------------------------------------------------

SendStep(s) ==
  SendBlocks(s) \/ SendClosed(s) \/ SendQueues(s) \/ SendOffers(s) \/ SendHandedOff(s)

RecvStep(r) == RecvBlocks(r) \/ RecvNothing(r) \/ RecvDequeues(r) \/ RecvTakes(r)

Next ==
  \/ \E s \in Senders : Send(s) \/ SendStep(s)
  \/ \E r \in Receivers : Recv(r) \/ RecvStep(r)
  \/ Close
  \/ \E t \in Tasks : SpuriousWakeup(t)

(* A task that is not blocked and gets the mutex again and again makes its *)
(* step.  Nobody has to call anything, and no wakeup has to be spurious.   *)
Fairness ==
  /\ \A s \in Senders : WF_vars(SendStep(s))
  /\ \A r \in Receivers : WF_vars(RecvStep(r))

Spec == Init /\ [][Next]_vars /\ Fairness

-----------------------------------------------------------------------------
(* Properties. *)

ChannelTypeOK ==
  /\ capacity \in Capacities
  /\ queue \in Seq(Messages) /\ Len(queue) <= capacity
  /\ closed \in BOOLEAN /\ ready \in BOOLEAN
  /\ slot \in Messages \cup {NoValue}
  /\ notFull \subseteq Senders /\ notEmpty \subseteq Receivers
  /\ pc \in [Tasks -> {"idle", "send", "handoff", "recv"}]
  /\ calls \in [Tasks -> Nat]
  /\ accepted \in Seq(Messages) /\ received \in Seq(Messages)
  /\ replies \in [Tasks -> Seq(BOOLEAN)]

(* What is in the channel, oldest first. *)
Contents == IF ready THEN <<slot>> ELSE queue

(* Values come out once each, in the order they went in; what is not yet   *)
(* out is still in the channel, before and after the close.                *)
Fifo == accepted = received \o Contents

(* The number of the call that reply i of a task belongs to is i. *)
Answered(s, k, b) == k <= Len(replies[s]) /\ replies[s][k] = b

(* A send that answered true has put its value in, and on a rendezvous     *)
(* channel a receiver has it already.                                      *)
SendAnswersTruth ==
  \A s \in Senders, k \in 1 .. MaxSends :
    Answered(s, k, TRUE) =>
      \E i \in 1 .. Len(accepted) :
        accepted[i] = <<s, k>> /\ (capacity = 0 => i <= Len(received))

(* A receiver is told "closed" only when every value that was accepted has *)
(* been received: closing loses nothing that is in the channel.            *)
CloseDrains ==
  (\E r \in Receivers : \E i \in 1 .. Len(replies[r]) : ~replies[r][i])
    => closed /\ Contents = <<>>

(* No task stays blocked on a condition that has come true: no wakeup is   *)
(* lost to the wrong task.  (For senders, on buffered channels only.)      *)
NoLostWakeup ==
  /\ capacity > 0 => \A s \in Senders : []<>~(s \in notFull /\ (closed \/ HasRoom))
  /\ \A r \in Receivers : []<>~(r \in notEmpty /\ (closed \/ HasValue))

(* Once the channel is closed every call returns. *)
CloseReleasesAll == closed ~> \A t \in Tasks : pc[t] = "idle"
=============================================================================
