------------------------------- MODULE Actors -------------------------------
(***************************************************************************)
(* Actors (VirtualMachineCallsAndActors.cpp, Value.h): every actor has a   *)
(* mailbox and a worker thread that handles it one item at a time, each    *)
(* in a virtual machine of its own.  A send is posted and forgotten; a     *)
(* query is posted under a request id and waited for.  A method may send   *)
(* and query in turn.                                                      *)
(*                                                                         *)
(* ShutdownActors runs only in ~SharedRuntime, which a running worker's    *)
(* reference keeps from happening, so no worker ever sees `stopping`.      *)
(* The worker's own test for an unknown method is not reached either: the  *)
(* opcode makes it first, and an actor's methods never change.             *)
(***************************************************************************)
EXTENDS Naturals, Sequences, FiniteSets

CONSTANTS
  Actors,
  Clients,     \* threads that are not actor workers
  QueriesOf,   \* QueriesOf[w]: the actors that thread w queries
  MaxPosts     \* bound on the items a thread posts

ASSUME ActorsAssumption ==
  /\ Actors \cap Clients = {}
  /\ QueriesOf \in [Actors \cup Clients -> SUBSET Actors]
  /\ MaxPosts \in [Actors \cup Clients -> Nat]

Threads == Actors \cup Clients
NoItem == [kind |-> "none", from |-> "none", requestId |-> 0, call |-> 0]

VARIABLES
  mailbox,         \* Actor::mailbox
  pendingQueries,  \* Actor::pendingQueries: request id -> QueryResult
  nextRequestId,   \* Actor::nextRequestId
  failures,        \* number of entries of Actor::failures
  asleep,          \* the worker is blocked on Actor::cv
  pc,              \* where a thread is
  item,            \* the item that a worker handles
  asked, request,  \* the actor that a thread queries, and the request id
  reply,           \* the answer to a thread's query
  posts,           \* number of items a thread has posted
  posted, handled  \* history: items put into and taken from each mailbox

boxVars == <<mailbox, pendingQueries, nextRequestId>>
queryVars == <<asked, request, reply>>
vars == <<boxVars, failures, asleep, pc, item, queryVars, posts, posted, handled>>

NoResult == [ready |-> FALSE, ok |-> FALSE, of |-> <<>>]
NoMap == [q \in {} |-> NoResult]

Init ==
  /\ mailbox = [a \in Actors |-> <<>>]
  /\ pendingQueries = [a \in Actors |-> NoMap]
  /\ nextRequestId = [a \in Actors |-> 1]
  /\ failures = [a \in Actors |-> 0]
  /\ asleep = [a \in Actors |-> FALSE]
  /\ pc = [w \in Threads |-> IF w \in Actors THEN "mailbox" ELSE "run"]
  /\ item = [a \in Actors |-> NoItem]
  /\ asked = [w \in Threads |-> "none"]
  /\ request = [w \in Threads |-> 0]
  /\ reply = [w \in Threads |-> NoResult]
  /\ posts = [w \in Threads |-> 0]
  /\ posted = [a \in Actors |-> <<>>]
  /\ handled = [a \in Actors |-> <<>>]

Goto(w, l) == pc' = [pc EXCEPT ![w] = l]

(* A thread that was refused a query or got an error cannot go on. *)
MayPost(w) == pc[w] = "run" /\ posts[w] < MaxPosts[w]

Post(w, a, it) ==
  /\ mailbox' = [mailbox EXCEPT ![a] = Append(@, it)]
  /\ posts' = [posts EXCEPT ![w] = @ + 1]
  /\ posted' = [posted EXCEPT ![a] = Append(@, it)]

-----------------------------------------------------------------------------
(* Posting. *)

(* EnqueueActorSend: under the mutex; the notification follows. *)
EnqueueActorSend(w, a) ==
  /\ MayPost(w)
  /\ Post(w, a, [kind |-> "send", from |-> w, requestId |-> 0,
                 call |-> posts[w] + 1])
  /\ asked' = [asked EXCEPT ![w] = a]
  /\ Goto(w, "notifySend")
  /\ UNCHANGED <<pendingQueries, nextRequestId, failures, asleep, item, request, reply, handled>>

SendNotifies(w) ==
  /\ pc[w] = "notifySend"
  /\ asleep' = [asleep EXCEPT ![asked[w]] = FALSE]
  /\ asked' = [asked EXCEPT ![w] = "none"]
  /\ Goto(w, "run")
  /\ UNCHANGED <<boxVars, failures, item, request, reply, posts, posted, handled>>

(* Faulty variant: the request id is not advanced. *)
EnqueueQueryReusesId(w, a) ==
  /\ MayPost(w) /\ a \in QueriesOf[w] /\ a # w
  /\ pendingQueries' = [pendingQueries EXCEPT ![a] =
       [q \in DOMAIN @ \cup {1} |-> IF q \in DOMAIN @ THEN @[q] ELSE NoResult]]
  /\ Post(w, a, [kind |-> "query", from |-> w, requestId |-> 1,
                 call |-> posts[w] + 1])
  /\ asked' = [asked EXCEPT ![w] = a]
  /\ request' = [request EXCEPT ![w] = 1]
  /\ Goto(w, "notifyQuery")
  /\ UNCHANGED <<nextRequestId, failures, asleep, item, reply, handled>>

EnqueueActorQuery(w, a) ==
  /\ MayPost(w) /\ a \in QueriesOf[w] /\ a # w
  /\ nextRequestId' = [nextRequestId EXCEPT ![a] = @ + 1]
  /\ pendingQueries' = [pendingQueries EXCEPT ![a] =
       [q \in DOMAIN @ \cup {nextRequestId[a]} |->
          IF q = nextRequestId[a] THEN NoResult ELSE @[q]]]
  /\ Post(w, a, [kind |-> "query", from |-> w,
                 requestId |-> nextRequestId[a], call |-> posts[w] + 1])
  /\ asked' = [asked EXCEPT ![w] = a]
  /\ request' = [request EXCEPT ![w] = nextRequestId[a]]
  /\ Goto(w, "notifyQuery")
  /\ UNCHANGED <<failures, asleep, item, reply, handled>>

(* A query of an actor to itself is an error. *)
SelfQueryFails(w) ==
  /\ w \in Actors /\ pc[w] = "run" /\ w \in QueriesOf[w]
  /\ Goto(w, "failed")
  /\ UNCHANGED <<boxVars, failures, asleep, item, queryVars, posts, posted, handled>>

(* So is naming a method that the actor does not have: the opcode looks it *)
(* up before anything is posted.                                           *)
UnknownMethodFails(w) ==
  /\ pc[w] = "run"
  /\ Goto(w, "failed")
  /\ UNCHANGED <<boxVars, failures, asleep, item, queryVars, posts, posted, handled>>

(* Faulty variant: the worker is not told. *)
QueryNotifiesNobody(w) ==
  /\ pc[w] = "notifyQuery"
  /\ Goto(w, "wait")
  /\ UNCHANGED <<boxVars, failures, asleep, item, queryVars, posts, posted, handled>>

QueryNotifies(w) ==
  /\ pc[w] = "notifyQuery"
  /\ asleep' = [asleep EXCEPT ![asked[w]] = FALSE]
  /\ Goto(w, "wait")
  /\ UNCHANGED <<boxVars, failures, item, queryVars, posts, posted, handled>>

(* The wait on QueryResult::cv is over. *)
QueryIsAnswered(w) ==
  /\ pc[w] = "wait"
  /\ pendingQueries[asked[w]][request[w]].ready
  /\ reply' = [reply EXCEPT ![w] = pendingQueries[asked[w]][request[w]]]
  /\ Goto(w, "erase")
  /\ UNCHANGED <<boxVars, failures, asleep, item, asked, request, posts, posted, handled>>

(* Faulty variant: the entry is left behind. *)
QueryReturnsKeepsEntry(w) ==
  /\ pc[w] = "erase"
  /\ Goto(w, IF reply[w].ok THEN "run" ELSE "failed")
  /\ asked' = [asked EXCEPT ![w] = "none"]
  /\ request' = [request EXCEPT ![w] = 0]
  /\ reply' = [reply EXCEPT ![w] = NoResult]
  /\ UNCHANGED <<boxVars, failures, asleep, item, posts, posted, handled>>

(* The entry is removed; an error reply is an error of the caller. *)
QueryReturns(w) ==
  /\ pc[w] = "erase"
  /\ pendingQueries' = [pendingQueries EXCEPT ![asked[w]] =
       [q \in DOMAIN @ \ {request[w]} |-> @[q]]]
  /\ Goto(w, IF reply[w].ok THEN "run" ELSE "failed")
  /\ asked' = [asked EXCEPT ![w] = "none"]
  /\ request' = [request EXCEPT ![w] = 0]
  /\ reply' = [reply EXCEPT ![w] = NoResult]
  /\ UNCHANGED <<mailbox, nextRequestId, failures, asleep, item, posts, posted, handled>>

-----------------------------------------------------------------------------
(* RunActorWorker. *)

WorkerSleeps(a) ==
  /\ pc[a] = "mailbox" /\ ~asleep[a]
  /\ mailbox[a] = <<>>
  /\ asleep' = [asleep EXCEPT ![a] = TRUE]
  /\ UNCHANGED <<boxVars, failures, pc, item, queryVars, posts, posted, handled>>

(* Faulty variant: handles the newest item first. *)
WorkerTakesNewest(a) ==
  /\ pc[a] = "mailbox" /\ ~asleep[a]
  /\ mailbox[a] # <<>>
  /\ LET n == Len(mailbox[a]) IN
       /\ item' = [item EXCEPT ![a] = mailbox[a][n]]
       /\ handled' = [handled EXCEPT ![a] = Append(@, mailbox[a][n])]
       /\ mailbox' = [mailbox EXCEPT ![a] = SubSeq(@, 1, n - 1)]
  /\ Goto(a, "run")
  /\ UNCHANGED <<pendingQueries, nextRequestId, failures, asleep, queryVars, posts, posted>>

WorkerTakes(a) ==
  /\ pc[a] = "mailbox" /\ ~asleep[a]
  /\ mailbox[a] # <<>>
  /\ item' = [item EXCEPT ![a] = Head(mailbox[a])]
  /\ handled' = [handled EXCEPT ![a] = Append(@, Head(mailbox[a]))]
  /\ mailbox' = [mailbox EXCEPT ![a] = Tail(@)]
  /\ Goto(a, "run")
  /\ UNCHANGED <<pendingQueries, nextRequestId, failures, asleep, queryVars, posts, posted>>

(* What the worker does with the end of an item: a query gets its reply,   *)
(* the failure of a send is filed, and the loop goes on.                   *)
Finish(a, ok) ==
  LET it == item[a] IN
  /\ IF it.kind = "query" /\ it.requestId \in DOMAIN pendingQueries[a]
       THEN pendingQueries' = [pendingQueries EXCEPT ![a][it.requestId] =
              [ready |-> TRUE, ok |-> ok, of |-> <<it.from, it.call>>]]
       ELSE UNCHANGED pendingQueries
  /\ failures' = IF it.kind = "send" /\ ~ok
                   THEN [failures EXCEPT ![a] = @ + 1] ELSE failures
  /\ item' = [item EXCEPT ![a] = NoItem]
  /\ Goto(a, "mailbox")
  /\ UNCHANGED <<mailbox, nextRequestId, asleep, queryVars, posts, posted, handled>>

MethodReturns(a) == pc[a] = "run" /\ Finish(a, TRUE)

(* Faulty variant: an error in a method ends the worker. *)
MethodFailsWorker(a) ==
  /\ pc[a] \in {"run", "failed"}
  /\ Goto(a, "dead")
  /\ UNCHANGED <<boxVars, failures, asleep, item, queryVars, posts, posted, handled>>

(* An error of the method itself, or one that a query of its raised. *)
MethodFails(a) == pc[a] \in {"run", "failed"} /\ Finish(a, FALSE)

-----------------------------------------------------------------------------

Running(w) == SendNotifies(w) \/ QueryNotifies(w) \/ QueryIsAnswered(w) \/ QueryReturns(w)

WorkerStep(a) == WorkerSleeps(a) \/ WorkerTakes(a)

MethodEnds(a) == MethodReturns(a) \/ MethodFails(a)

Next ==
  \/ \E w \in Threads, a \in Actors :
       EnqueueActorSend(w, a) \/ EnqueueActorQuery(w, a)
  \/ \E w \in Threads : Running(w) \/ SelfQueryFails(w) \/ UnknownMethodFails(w)
  \/ \E a \in Actors : WorkerStep(a) \/ MethodEnds(a)

(* Threads run, and a method that is not waiting for an answer ends. *)
Fairness ==
  /\ \A w \in Threads : WF_vars(Running(w))
  /\ \A a \in Actors : WF_vars(WorkerStep(a)) /\ WF_vars(MethodEnds(a))

Spec == Init /\ [][Next]_vars /\ Fairness

-----------------------------------------------------------------------------
(* Properties. *)

(* The types; a worker has an item exactly while it is outside its         *)
(* mailbox loop, and sleeps only inside it; `failures` has no more entries *)
(* than sends were handled.                                                *)
ActorsTypeOK ==
  /\ \A a \in Actors :
       /\ (item[a] = NoItem) = (pc[a] = "mailbox")
       /\ asleep[a] => pc[a] = "mailbox"
       /\ failures[a] \in 0 .. Len(SelectSeq(handled[a], LAMBDA it : it.kind = "send"))
  /\ pc \in [Threads -> {"mailbox", "run", "failed", "notifySend",
                         "notifyQuery", "wait", "erase"}]

(* Items are handled in the order in which they were posted, so a query    *)
(* sees the effect of everything its sender sent before it.                *)
MailboxOrder == \A a \in Actors : posted[a] = handled[a] \o mailbox[a]

(* A query gets the answer to itself, whoever else asks the same actor. *)
RepliesMatch ==
  \A w \in Threads : pc[w] = "erase" => reply[w].of = <<w, posts[w]>>

(* An actor's pendingQueries are the queries under way: no entry is lost   *)
(* before it is answered and none is left over afterwards.                 *)
PendingIsExact ==
  \A a \in Actors :
    DOMAIN pendingQueries[a] =
      {request[w] : w \in {v \in Threads : /\ asked[v] = a
                                           /\ pc[v] \in {"notifyQuery", "wait", "erase"}}}

(* Everything that is posted is handled, failures of earlier items         *)
(* notwithstanding.                                                        *)
MailboxDrains == \A a \in Actors : []<>(mailbox[a] = <<>>)

(* Every query returns. *)
QueriesReturn == \A w \in Threads : pc[w] = "wait" ~> pc[w] # "wait"
=============================================================================
