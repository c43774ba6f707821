---------------------------- MODULE ActorsProofs ----------------------------
(***************************************************************************)
(* For any actors and clients that send to and query each other: items are *)
(* handled in the order of posting, a query is given the answer to itself, *)
(* and an actor's pendingQueries are the queries under way.                *)
(***************************************************************************)
EXTENDS Actors, SequenceTheorems, TLAPS

Labels == {"mailbox", "run", "failed", "notifySend", "notifyQuery", "wait", "erase"}
Items == [kind : {"send", "query"}, from : Threads, requestId : Nat, call : Nat]

Types ==
  /\ pc \in [Threads -> Labels]
  /\ mailbox \in [Actors -> Seq(Items)]
  /\ posted \in [Actors -> Seq(Items)]
  /\ handled \in [Actors -> Seq(Items)]
  /\ item \in [Actors -> Items \cup {NoItem}]
  /\ nextRequestId \in [Actors -> Nat]
  /\ pendingQueries = [a \in Actors |-> pendingQueries[a]]
  /\ request = [w \in Threads |-> request[w]] /\ asked = [w \in Threads |-> asked[w]]
  /\ reply = [w \in Threads |-> reply[w]]
  /\ posts \in [Threads -> Nat]

(* A thread is inside EnqueueActorQuery, from the post to the return. *)
Asking(w) == pc[w] \in {"notifyQuery", "wait", "erase"}

(* Two queries under way at one actor have two request ids, all handed out. *)
RequestsDistinct ==
  /\ \A w \in Threads : Asking(w) =>
       asked[w] \in Actors /\ request[w] \in Nat /\ request[w] < nextRequestId[asked[w]]
  /\ \A v, w \in Threads :
       Asking(v) /\ Asking(w) /\ asked[v] = asked[w] /\ request[v] = request[w] => v = w

(* The item that a worker handles is the last one it took. *)
HandlesLast ==
  \A a \in Actors :
    /\ pc[a] = "mailbox" => item[a] = NoItem
    /\ pc[a] # "mailbox" => handled[a] # <<>> /\ item[a] = handled[a][Len(handled[a])]

(* The items of an actor that are over: all that it took but the one at hand. *)
Done(a) == IF pc[a] = "mailbox" THEN Len(handled[a]) ELSE Len(handled[a]) - 1

(* A query item is waited for, by the thread and for the call it names,    *)
(* and has no answer yet.                                                  *)
IsAwaited(a, it) ==
  /\ pc[it.from] \in {"notifyQuery", "wait"} /\ asked[it.from] = a
  /\ request[it.from] = it.requestId /\ posts[it.from] = it.call
  /\ ~pendingQueries[a][it.requestId].ready

(* Every query that was posted and is not over is awaited, and no other    *)
(* query was posted with its id.                                           *)
QueriesAwaited ==
  \A a \in Actors : \A i \in 1 .. Len(posted[a]) : posted[a][i].kind = "query" =>
    /\ posted[a][i].requestId < nextRequestId[a]
    /\ \A j \in 1 .. Len(posted[a]) :
         posted[a][j].kind = "query" /\ posted[a][j].requestId = posted[a][i].requestId => j = i
    /\ i > Done(a) => IsAwaited(a, posted[a][i])

(* An answer that is there is the answer to the query that waits for it. *)
AnswersMatch ==
  \A w \in Threads : Asking(w) =>
    LET e == pendingQueries[asked[w]][request[w]]
    IN  e.ready => e.of = <<w, posts[w]>>

ActorsInv ==
  /\ Types /\ MailboxOrder /\ RepliesMatch /\ PendingIsExact
  /\ RequestsDistinct /\ HandlesLast /\ QueriesAwaited /\ AnswersMatch

-----------------------------------------------------------------------------
(* Sequences. *)

(* An item that leaves at the front moves from one part to the other. *)
LEMMA HeadLeaves ==
  ASSUME NEW S, NEW r \in Seq(S), NEW q \in Seq(S), q # <<>>
  PROVE  r \o q = Append(r, Head(q)) \o Tail(q)
<1>1. Head(q) \in S /\ Tail(q) \in Seq(S) /\ <<Head(q)>> \in Seq(S)
  BY HeadTailProperties
<1>2. q = <<Head(q)>> \o Tail(q)
  BY <1>1, SMT
<1>3. Append(r, Head(q)) = r \o <<Head(q)>>
  BY <1>1, AppendIsConcat
<1>4. (r \o <<Head(q)>>) \o Tail(q) = r \o (<<Head(q)>> \o Tail(q))
  BY <1>1, ConcatAssociative
<1> QED
  BY <1>2, <1>3, <1>4

-----------------------------------------------------------------------------
(* The steps. *)

(* No mailbox, query or reply exists at the start.                         *)
LEMMA InitEstablishesInv == Init => ActorsInv
<1> SUFFICES ASSUME Init PROVE ActorsInv
  OBVIOUS
<1> USE DEF Init
<1>1. Types
  <2>1. <<>> \in Seq(Items)
    BY EmptySeq
  <2> QED
    BY <2>1 DEF Types, Labels, Threads
<1>2. \A w \in Threads : ~Asking(w)
  BY DEF Asking
<1>3. MailboxOrder /\ RepliesMatch /\ HandlesLast
  BY DEF MailboxOrder, RepliesMatch, HandlesLast, Threads
<1>4. PendingIsExact
  BY DEF PendingIsExact, NoMap
<1>5. RequestsDistinct /\ AnswersMatch
  BY <1>2 DEF RequestsDistinct, AnswersMatch
<1>6. QueriesAwaited
  <2>1. \A a \in Actors : Len(posted[a]) = 0
    OBVIOUS
  <2> QED
    BY <2>1 DEF QueriesAwaited
<1> QED
  BY <1>1, <1>3, <1>4, <1>5, <1>6 DEF ActorsInv

(* What is in a mailbox are items. *)
LEMMA PostedItems ==
  ASSUME Types, NEW a \in Actors, NEW i \in 1 .. Len(posted[a])
  PROVE  /\ posted[a][i] \in Items
         /\ posted[a][i].from \in Threads /\ posted[a][i].requestId \in Nat
         /\ posted[a][i].kind \in {"send", "query"}
<1>1. posted[a] \in Seq(Items)
  BY DEF Types
<1>2. posted[a][i] \in Items
  BY <1>1, ElementOfSeq
<1> QED
  BY <1>2 DEF Items

(* Steps that neither post, take, answer nor end anything. *)
LEMMA QuietKeepsInv ==
  ASSUME ActorsInv, Types',
         mailbox' = mailbox, pendingQueries' = pendingQueries, nextRequestId' = nextRequestId,
         item' = item, request' = request, reply' = reply, posts' = posts,
         posted' = posted, handled' = handled,
         \A w \in Threads : /\ Asking(w)' <=> Asking(w)
                            /\ pc'[w] = "erase" <=> pc[w] = "erase"
                            /\ pc'[w] = "mailbox" <=> pc[w] = "mailbox"
                            /\ Asking(w) => asked'[w] = asked[w]
  PROVE  ActorsInv'
<1>1. MailboxOrder' /\ RepliesMatch'
  BY DEF ActorsInv, MailboxOrder, RepliesMatch
<1>2. PendingIsExact'
  <2>1. \A a \in Actors :
          {v \in Threads : asked'[v] = a /\ pc'[v] \in {"notifyQuery", "wait", "erase"}}
            = {v \in Threads : asked[v] = a /\ pc[v] \in {"notifyQuery", "wait", "erase"}}
    BY DEF Asking
  <2> QED
    BY <2>1 DEF ActorsInv, PendingIsExact
<1>3. RequestsDistinct' /\ AnswersMatch'
  BY DEF ActorsInv, RequestsDistinct, AnswersMatch
<1>4. HandlesLast' /\ \A a \in Actors : Done(a)' = Done(a)
  BY DEF ActorsInv, HandlesLast, Done, Threads
<1>5. QueriesAwaited'
  <2>1. \A a \in Actors : \A i \in 1 .. Len(posted[a]) : posted[a][i].from \in Threads
    BY PostedItems DEF ActorsInv
  <2>2. ASSUME NEW a \in Actors, NEW i \in 1 .. Len(posted[a]), IsAwaited(a, posted[a][i])
        PROVE  IsAwaited(a, posted[a][i])'
    BY <2>1, <2>2 DEF IsAwaited, Asking, ActorsInv, Types, Labels
  <2> QED
    BY <1>4, <2>2 DEF ActorsInv, QueriesAwaited
<1> QED
  BY <1>1, <1>2, <1>3, <1>4, <1>5 DEF ActorsInv

(* A thread outside the mailbox loop goes on. *)
LEMMA StepOfThread ==
  ASSUME ActorsInv, NEW w \in Threads, NEW l \in Labels, Goto(w, l)
  PROVE  /\ pc' \in [Threads -> Labels]
         /\ pc'[w] = l /\ \A v \in Threads \ {w} : pc'[v] = pc[v]
BY DEF ActorsInv, Types, Goto

(* Steps that only notify a worker, or fail without posting, keep it.      *)
LEMMA QuietSteps ==
  ASSUME ActorsInv, NEW w \in Threads,
         \/ SendNotifies(w) \/ QueryNotifies(w)
         \/ SelfQueryFails(w) \/ UnknownMethodFails(w)
  PROVE  ActorsInv'
<1>0. /\ mailbox' = mailbox /\ pendingQueries' = pendingQueries
      /\ nextRequestId' = nextRequestId /\ item' = item /\ request' = request
      /\ reply' = reply /\ posts' = posts /\ posted' = posted /\ handled' = handled
  BY DEF SendNotifies, QueryNotifies, SelfQueryFails, UnknownMethodFails, boxVars, queryVars
<1>1. PICK l \in {"run", "failed", "wait"} :
        /\ Goto(w, l) /\ pc[w] \in {"notifySend", "notifyQuery", "run"}
        /\ l = "wait" <=> pc[w] = "notifyQuery"
  BY DEF SendNotifies, QueryNotifies, SelfQueryFails, UnknownMethodFails
<1>2. /\ pc' \in [Threads -> Labels]
      /\ pc'[w] = l /\ \A v \in Threads \ {w} : pc'[v] = pc[v]
  BY <1>1, StepOfThread DEF Labels
<1>3. \/ asked' = [asked EXCEPT ![w] = "none"] /\ pc[w] = "notifySend"
      \/ asked' = asked
  BY DEF SendNotifies, QueryNotifies, SelfQueryFails, UnknownMethodFails, queryVars
<1>4. Types'
  BY <1>0, <1>2, <1>3 DEF ActorsInv, Types
<1>5. ASSUME NEW v \in Threads
      PROVE  /\ Asking(v)' <=> Asking(v)
             /\ pc'[v] = "erase" <=> pc[v] = "erase"
             /\ pc'[v] = "mailbox" <=> pc[v] = "mailbox"
             /\ Asking(v) => asked'[v] = asked[v]
  <2>1. CASE v = w
    BY <1>1, <1>2, <1>3, <2>1 DEF Asking
  <2>2. CASE v # w
    BY <1>2, <1>3, <2>2 DEF Asking, ActorsInv, Types
  <2> QED
    BY <2>1, <2>2
<1> QED
  BY <1>0, <1>4, <1>5, QuietKeepsInv

(* A worker that goes to sleep changes nothing the invariant reads.        *)
LEMMA WorkerSleepsKeepsInv ==
  ASSUME ActorsInv, (\E a \in Actors : WorkerSleeps(a)) \/ UNCHANGED vars
  PROVE  ActorsInv'
<1>1. /\ mailbox' = mailbox /\ pendingQueries' = pendingQueries
      /\ nextRequestId' = nextRequestId /\ item' = item /\ request' = request
      /\ reply' = reply /\ posts' = posts /\ posted' = posted /\ handled' = handled
      /\ pc' = pc /\ asked' = asked
  BY DEF WorkerSleeps, vars, boxVars, queryVars
<1>2. Types'
  BY <1>1 DEF ActorsInv, Types
<1> QED
  BY <1>1, <1>2, QuietKeepsInv DEF Asking

(* A post puts the item behind the others. *)
LEMMA PostAppends ==
  ASSUME ActorsInv, NEW w \in Threads, NEW a \in Actors, NEW it \in Items,
         Post(w, a, it), handled' = handled
  PROVE  /\ mailbox' \in [Actors -> Seq(Items)] /\ posted' \in [Actors -> Seq(Items)]
         /\ posts' \in [Threads -> Nat] /\ posts'[w] = posts[w] + 1
         /\ \A v \in Threads \ {w} : posts'[v] = posts[v]
         /\ \A b \in Actors \ {a} : posted'[b] = posted[b]
         /\ Len(posted[a]) \in Nat /\ Len(posted'[a]) = Len(posted[a]) + 1
         /\ \A i \in 1 .. Len(posted[a]) : posted'[a][i] = posted[a][i]
         /\ posted'[a][Len(posted[a]) + 1] = it
         /\ MailboxOrder'
<1>1. /\ mailbox \in [Actors -> Seq(Items)] /\ posted \in [Actors -> Seq(Items)]
      /\ handled \in [Actors -> Seq(Items)] /\ posts \in [Threads -> Nat] /\ MailboxOrder
  BY DEF ActorsInv, Types
<1>2. /\ mailbox'[a] = Append(mailbox[a], it) /\ posted'[a] = Append(posted[a], it)
      /\ \A b \in Actors \ {a} : mailbox'[b] = mailbox[b] /\ posted'[b] = posted[b]
      /\ posts'[w] = posts[w] + 1 /\ \A v \in Threads \ {w} : posts'[v] = posts[v]
  BY <1>1 DEF Post
<1>3. Append(mailbox[a], it) \in Seq(Items) /\ Append(posted[a], it) \in Seq(Items)
  BY <1>1, AppendProperties
<1>4. mailbox' \in [Actors -> Seq(Items)] /\ posted' \in [Actors -> Seq(Items)]
  BY <1>1, <1>3 DEF Post
<1>5. posts' \in [Threads -> Nat]
  BY <1>1 DEF Post
<1>6. /\ Len(posted[a]) \in Nat /\ Len(posted'[a]) = Len(posted[a]) + 1
      /\ \A i \in 1 .. Len(posted[a]) : posted'[a][i] = posted[a][i]
      /\ posted'[a][Len(posted[a]) + 1] = it
  BY <1>1, <1>2, AppendProperties
<1>7. MailboxOrder'
  <2>1. posted'[a] = handled[a] \o mailbox'[a]
    <3> DEFINE h == handled[a]  m == mailbox[a]  p == posted[a]
               mm == mailbox'[a]  pp == posted'[a]
    <3>1. /\ h \in Seq(Items) /\ m \in Seq(Items) /\ p = h \o m
          /\ pp = Append(p, it) /\ mm = Append(m, it)
      BY <1>1, <1>2 DEF MailboxOrder
    <3> HIDE DEF h, m, p, mm, pp
    <3>2. pp = h \o mm
      BY <3>1, AppendProperties, ConcatProperties
    <3> QED
      BY <3>2 DEF h, mm, pp
  <2> QED
    BY <1>1, <1>2, <2>1 DEF MailboxOrder
<1> QED
  BY <1>2, <1>4, <1>5, <1>6, <1>7

(* A send puts a new item at the end of what was posted to the actor.      *)
LEMMA SendKeepsInv ==
  ASSUME ActorsInv, NEW w \in Threads, NEW a \in Actors, EnqueueActorSend(w, a)
  PROVE  ActorsInv'
<1> DEFINE it == [kind |-> "send", from |-> w, requestId |-> 0, call |-> posts[w] + 1]
<1> DEFINE n == Len(posted[a]) + 1
<1>0. /\ pc[w] = "run" /\ Post(w, a, it) /\ Goto(w, "notifySend")
      /\ asked' = [asked EXCEPT ![w] = a]
      /\ pendingQueries' = pendingQueries /\ nextRequestId' = nextRequestId /\ item' = item
      /\ request' = request /\ reply' = reply /\ handled' = handled
  BY DEF EnqueueActorSend, MayPost
<1>1. it \in Items /\ it.kind = "send"
  BY DEF ActorsInv, Types, Items
<1>2. /\ mailbox' \in [Actors -> Seq(Items)] /\ posted' \in [Actors -> Seq(Items)]
      /\ posts' \in [Threads -> Nat] /\ posts'[w] = posts[w] + 1
      /\ \A v \in Threads \ {w} : posts'[v] = posts[v]
      /\ \A b \in Actors \ {a} : posted'[b] = posted[b]
      /\ Len(posted[a]) \in Nat /\ Len(posted'[a]) = n
      /\ \A i \in 1 .. Len(posted[a]) : posted'[a][i] = posted[a][i]
      /\ posted'[a][n] = it
      /\ MailboxOrder'
  <2> HIDE DEF it
  <2> QED
    BY <1>0, <1>1, PostAppends
<1> HIDE DEF it
<1>3. /\ pc' \in [Threads -> Labels]
      /\ pc'[w] = "notifySend" /\ \A v \in Threads \ {w} : pc'[v] = pc[v]
  BY <1>0, StepOfThread DEF Labels
<1>4. Types'
  BY <1>0, <1>2, <1>3 DEF ActorsInv, Types
<1>5. \A v \in Threads : /\ Asking(v)' <=> Asking(v)
                         /\ Asking(v) => v # w /\ asked'[v] = asked[v] /\ posts'[v] = posts[v]
  BY <1>0, <1>2, <1>3 DEF Asking, ActorsInv, Types
<1>6. RepliesMatch'
  BY <1>0, <1>2, <1>3 DEF ActorsInv, RepliesMatch
<1>7. PendingIsExact'
  <2>1. \A b \in Actors :
          {v \in Threads : asked'[v] = b /\ pc'[v] \in {"notifyQuery", "wait", "erase"}}
            = {v \in Threads : asked[v] = b /\ pc[v] \in {"notifyQuery", "wait", "erase"}}
    BY <1>5 DEF Asking
  <2> QED
    BY <1>0, <2>1 DEF ActorsInv, PendingIsExact
<1>8. RequestsDistinct'
  BY <1>0, <1>5 DEF ActorsInv, RequestsDistinct
<1>9. AnswersMatch'
  BY <1>0, <1>5 DEF ActorsInv, AnswersMatch
<1>10. HandlesLast' /\ \A b \in Actors : Done(b)' = Done(b)
  BY <1>0, <1>3 DEF ActorsInv, HandlesLast, Done, Threads
<1>11. QueriesAwaited'
  <2>1. ASSUME NEW b \in Actors, NEW i \in 1 .. Len(posted[b]), IsAwaited(b, posted[b][i])
        PROVE  (posted[b][i].from) \in Threads \ {w}
    BY <1>0, <2>1, PostedItems DEF IsAwaited, ActorsInv
  <2>2. ASSUME NEW b \in Actors, NEW i \in 1 .. Len(posted'[b]), posted'[b][i].kind = "query"
        PROVE  i \in 1 .. Len(posted[b]) /\ posted'[b][i] = posted[b][i]
    <3>1. CASE b = a
      <4>1. i \in 1 .. Len(posted[a]) \/ i = n
        BY <1>2, <2>2, <3>1
      <4> QED
        BY <1>1, <1>2, <2>2, <3>1, <4>1
    <3>2. CASE b # a
      BY <1>2, <2>2, <3>2
    <3> QED
      BY <3>1, <3>2
  <2>3. ASSUME NEW b \in Actors, NEW i \in 1 .. Len(posted[b]), IsAwaited(b, posted[b][i]),
               posted'[b][i] = posted[b][i]
        PROVE  IsAwaited(b, posted[b][i])'
    <3>1. posted[b][i].from \in Threads \ {w}
      BY <2>1, <2>3
    <3>2. /\ pc'[posted[b][i].from] = pc[posted[b][i].from]
          /\ asked'[posted[b][i].from] = asked[posted[b][i].from]
          /\ posts'[posted[b][i].from] = posts[posted[b][i].from]
      BY <1>0, <1>2, <1>3, <3>1 DEF ActorsInv, Types
    <3> QED
      BY <1>0, <2>3, <3>2 DEF IsAwaited
  <2> QED
    BY <1>0, <1>10, <2>2, <2>3 DEF ActorsInv, QueriesAwaited
<1> QED
  BY <1>2, <1>4, <1>6, <1>7, <1>8, <1>9, <1>10, <1>11 DEF ActorsInv

(* A query under way has its entry. *)
LEMMA EntryExists ==
  ASSUME ActorsInv, NEW w \in Threads, Asking(w)
  PROVE  asked[w] \in Actors /\ request[w] \in DOMAIN pendingQueries[asked[w]]
BY DEF ActorsInv, RequestsDistinct, PendingIsExact, Asking

(* ... and so has a query that was posted and is not over. *)
LEMMA AwaitedHasEntry ==
  ASSUME ActorsInv, NEW a \in Actors, NEW i \in 1 .. Len(posted[a]), IsAwaited(a, posted[a][i])
  PROVE  /\ Asking(posted[a][i].from) /\ posted[a][i].from \in Threads
         /\ posted[a][i].requestId \in DOMAIN pendingQueries[a]
<1>1. posted[a][i].from \in Threads
  BY PostedItems DEF ActorsInv
<1>2. Asking(posted[a][i].from)
  BY DEF IsAwaited, Asking
<1> QED
  BY <1>1, <1>2, EntryExists DEF IsAwaited

(* A query does the same under a request id that no other entry has.       *)
LEMMA QueryKeepsInv ==
  ASSUME ActorsInv, NEW w \in Threads, NEW a \in Actors, EnqueueActorQuery(w, a)
  PROVE  ActorsInv'
<1> DEFINE id == nextRequestId[a]
<1> DEFINE it == [kind |-> "query", from |-> w, requestId |-> id, call |-> posts[w] + 1]
<1>16. PICK n \in Nat : n = Len(posted[a]) + 1
  <2>1. posted[a] \in Seq(Items)
    BY DEF ActorsInv, Types
  <2> QED
    BY <2>1, LenProperties
<1>0. /\ pc[w] = "run" /\ Post(w, a, it) /\ Goto(w, "notifyQuery")
      /\ asked' = [asked EXCEPT ![w] = a]
      /\ nextRequestId' = [nextRequestId EXCEPT ![a] = @ + 1]
      /\ pendingQueries' = [pendingQueries EXCEPT ![a] =
           [q \in DOMAIN @ \cup {id} |-> IF q = id THEN NoResult ELSE @[q]]]
      /\ request' = [request EXCEPT ![w] = id]
      /\ item' = item /\ reply' = reply /\ handled' = handled
  BY DEF EnqueueActorQuery, MayPost
<1>1. /\ it \in Items /\ it.kind = "query" /\ it.from = w /\ it.requestId = id
      /\ it.call = posts[w] + 1 /\ id \in Nat
  BY DEF ActorsInv, Types, Items
<1> HIDE DEF it
<1>2. /\ mailbox' \in [Actors -> Seq(Items)] /\ posted' \in [Actors -> Seq(Items)]
      /\ posts' \in [Threads -> Nat] /\ posts'[w] = posts[w] + 1
      /\ \A v \in Threads \ {w} : posts'[v] = posts[v]
      /\ \A b \in Actors \ {a} : posted'[b] = posted[b]
      /\ Len(posted[a]) \in Nat /\ Len(posted'[a]) = n
      /\ \A i \in 1 .. Len(posted[a]) : posted'[a][i] = posted[a][i]
      /\ posted'[a][n] = it
      /\ MailboxOrder'
  BY <1>0, <1>1, <1>16, PostAppends
<1>3. /\ pc' \in [Threads -> Labels]
      /\ pc'[w] = "notifyQuery" /\ \A v \in Threads \ {w} : pc'[v] = pc[v]
  BY <1>0, StepOfThread DEF Labels
<1>4. Types'
  <2>1. nextRequestId' \in [Actors -> Nat]
    <3>1. nextRequestId \in [Actors -> Nat] /\ nextRequestId' = [nextRequestId EXCEPT ![a] = id + 1]
      BY <1>0 DEF ActorsInv, Types
    <3> QED
      BY <1>1, <3>1
  <2>3. request' = [v \in Threads |-> request'[v]] /\ asked' = [v \in Threads |-> asked'[v]]
    <3>1. request = [v \in Threads |-> request[v]] /\ asked = [v \in Threads |-> asked[v]]
      BY DEF ActorsInv, Types
    <3> QED
      BY <1>0, <3>1
  <2>2. pendingQueries' = [b \in Actors |-> pendingQueries'[b]]
    BY <1>0 DEF ActorsInv, Types
  <2> QED
    BY <1>0, <1>2, <1>3, <2>1, <2>2, <2>3 DEF ActorsInv, Types
<1>5. /\ asked'[w] = a /\ \A v \in Threads \ {w} : asked'[v] = asked[v]
      /\ request'[w] = id /\ \A v \in Threads \ {w} : request'[v] = request[v]
      /\ nextRequestId'[a] = id + 1
      /\ \A b \in Actors \ {a} : nextRequestId'[b] = nextRequestId[b]
  BY <1>0 DEF ActorsInv, Types
<1>6. /\ \A b \in Actors \ {a} : pendingQueries'[b] = pendingQueries[b]
      /\ pendingQueries'[a] = [q \in DOMAIN pendingQueries[a] \cup {id} |->
                                IF q = id THEN NoResult ELSE pendingQueries[a][q]]
  BY <1>0 DEF ActorsInv, Types
<1>7. ~NoResult.ready
  BY DEF NoResult
<1>8. /\ ~Asking(w) /\ Asking(w)'
      /\ \A v \in Threads \ {w} : Asking(v)' <=> Asking(v)
  BY <1>0, <1>3 DEF Asking
<1>9. \A v \in Threads : Asking(v) /\ asked[v] = a => request[v] # id
  BY <1>1 DEF ActorsInv, RequestsDistinct
<1>10. RepliesMatch'
  BY <1>0, <1>2, <1>3 DEF ActorsInv, RepliesMatch
<1>11. PendingIsExact'
  <2> DEFINE Q(b) == {v \in Threads : asked[v] = b /\ Asking(v)}
             R(b) == {v \in Threads : asked'[v] = b /\ Asking(v)'}
  <2>1. R(a) = Q(a) \cup {w} /\ w \notin Q(a)
    BY <1>5, <1>8
  <2>2. \A b \in Actors \ {a} : R(b) = Q(b) /\ w \notin Q(b)
    BY <1>5, <1>8
  <2>3. \A b \in Actors : DOMAIN pendingQueries[b] = {request[v] : v \in Q(b)}
    BY DEF ActorsInv, PendingIsExact, Asking
  <2>4. DOMAIN pendingQueries'[a] = {request'[v] : v \in R(a)}
    <3>1. DOMAIN pendingQueries'[a] = {request[v] : v \in Q(a)} \cup {id}
      BY <1>6, <2>3
    <3> QED
      BY <1>5, <2>1, <3>1
  <2>5. \A b \in Actors \ {a} : DOMAIN pendingQueries'[b] = {request'[v] : v \in R(b)}
    BY <1>5, <1>6, <2>2, <2>3
  <2> QED
    BY <2>4, <2>5 DEF PendingIsExact, Asking
<1>12. RequestsDistinct'
  <2>1. ASSUME NEW v \in Threads, Asking(v)'
        PROVE  asked'[v] \in Actors /\ request'[v] \in Nat /\ request'[v] < nextRequestId'[asked'[v]]
    <3>1. CASE v = w
      BY <1>1, <1>5, <3>1
    <3>2. CASE v # w
      <4>1. asked[v] \in Actors /\ request[v] \in Nat /\ request[v] < nextRequestId[asked[v]]
        BY <1>8, <2>1, <3>2 DEF ActorsInv, RequestsDistinct
      <4> QED
        BY <1>1, <1>5, <3>2, <4>1
    <3> QED
      BY <3>1, <3>2
  <2>2. ASSUME NEW u \in Threads, NEW v \in Threads, Asking(u)', Asking(v)',
               asked'[u] = asked'[v], request'[u] = request'[v]
        PROVE  u = v
    BY <1>5, <1>8, <1>9, <2>2 DEF ActorsInv, RequestsDistinct
  <2> QED
    BY <2>1, <2>2 DEF RequestsDistinct
<1>13. AnswersMatch'
  <2> SUFFICES ASSUME NEW v \in Threads, Asking(v)',
                      pendingQueries'[asked'[v]][request'[v]].ready
               PROVE  pendingQueries'[asked'[v]][request'[v]].of = <<v, posts'[v]>>
    BY DEF AnswersMatch
  <2>1. v # w
    BY <1>5, <1>6, <1>7
  <2>2. Asking(v) /\ asked[v] \in Actors /\ request[v] \in DOMAIN pendingQueries[asked[v]]
    BY <1>8, <2>1, EntryExists
  <2>3. pendingQueries'[asked'[v]][request'[v]] = pendingQueries[asked[v]][request[v]]
    BY <1>5, <1>6, <1>9, <2>1, <2>2
  <2> QED
    BY <1>2, <2>1, <2>2, <2>3 DEF ActorsInv, AnswersMatch
<1>14. HandlesLast' /\ \A b \in Actors : Done(b)' = Done(b)
  BY <1>0, <1>3 DEF ActorsInv, HandlesLast, Done, Threads
<1>15. QueriesAwaited'
  <2>1. ASSUME NEW b \in Actors, NEW i \in 1 .. Len(posted[b]), IsAwaited(b, posted[b][i]),
               posted'[b][i] = posted[b][i]
        PROVE  IsAwaited(b, posted[b][i])'
    <3> DEFINE f == posted[b][i].from
    <3>1. f \in Threads /\ Asking(f) /\ posted[b][i].requestId \in DOMAIN pendingQueries[b]
      BY <2>1, AwaitedHasEntry
    <3>2. f # w
      BY <1>8, <3>1
    <3>3. pc'[f] = pc[f] /\ asked'[f] = asked[f] /\ request'[f] = request[f] /\ posts'[f] = posts[f]
      BY <1>2, <1>3, <1>5, <3>1, <3>2
    <3>4. asked[f] = b /\ request[f] = posted[b][i].requestId
      BY <2>1 DEF IsAwaited
    <3>5. pendingQueries'[b][posted[b][i].requestId] = pendingQueries[b][posted[b][i].requestId]
      BY <1>6, <1>9, <3>1, <3>4
    <3> QED
      BY <2>1, <3>3, <3>5 DEF IsAwaited
  <2>2. IsAwaited(a, posted[a][n])'
    BY <1>1, <1>2, <1>3, <1>5, <1>6, <1>7 DEF IsAwaited
  <2>3. ASSUME NEW b \in Actors, NEW i \in 1 .. Len(posted'[b])
        PROVE  \/ i \in 1 .. Len(posted[b]) /\ posted'[b][i] = posted[b][i]
               \/ b = a /\ i = n
    <3>1. CASE b = a
      BY <1>2, <1>16, <3>1
    <3>2. CASE b # a
      BY <1>2, <3>2
    <3> QED
      BY <3>1, <3>2
  <2>4. ASSUME NEW b \in Actors, NEW i \in 1 .. Len(posted[b]), posted[b][i].kind = "query"
        PROVE  posted[b][i].requestId \in Nat /\ posted[b][i].requestId < nextRequestId[b]
    BY <2>4, PostedItems DEF ActorsInv, QueriesAwaited
  <2> SUFFICES ASSUME NEW b \in Actors, NEW i \in 1 .. Len(posted'[b]),
                      posted'[b][i].kind = "query"
               PROVE  /\ posted'[b][i].requestId < nextRequestId'[b]
                      /\ \A j \in 1 .. Len(posted'[b]) :
                           /\ posted'[b][j].kind = "query"
                           /\ posted'[b][j].requestId = posted'[b][i].requestId
                           => j = i
                      /\ i > Done(b)' => IsAwaited(b, posted[b][i])'
    BY DEF QueriesAwaited
  <2>5. posted'[b][i].requestId < nextRequestId'[b]
    <3>1. CASE b = a /\ i = n
      BY <1>1, <1>2, <1>5, <3>1
    <3>2. CASE i \in 1 .. Len(posted[b]) /\ posted'[b][i] = posted[b][i]
      <4>1. nextRequestId[b] \in Nat
        BY DEF ActorsInv, Types
      <4> QED
        BY <1>5, <2>4, <3>2, <4>1
    <3> QED
      BY <2>3, <3>1, <3>2
  <2>6. ASSUME NEW j \in 1 .. Len(posted'[b]), posted'[b][j].kind = "query",
               posted'[b][j].requestId = posted'[b][i].requestId
        PROVE  j = i
    <3>1. CASE /\ i \in 1 .. Len(posted[b]) /\ posted'[b][i] = posted[b][i]
               /\ j \in 1 .. Len(posted[b]) /\ posted'[b][j] = posted[b][j]
      BY <2>6, <3>1 DEF ActorsInv, QueriesAwaited
    <3>2. CASE /\ i \in 1 .. Len(posted[b]) /\ posted'[b][i] = posted[b][i]
               /\ b = a /\ j = n
      <4>1. posted[a][i].requestId = id /\ posted[a][i].kind = "query"
        BY <1>1, <1>2, <2>6, <3>2
      <4> QED
        BY <1>1, <2>4, <3>2, <4>1
    <3>3. CASE /\ j \in 1 .. Len(posted[b]) /\ posted'[b][j] = posted[b][j]
               /\ b = a /\ i = n
      <4>1. posted[a][j].requestId = id /\ posted[a][j].kind = "query"
        BY <1>1, <1>2, <2>6, <3>3
      <4> QED
        BY <1>1, <2>4, <3>3, <4>1
    <3> QED
      BY <2>3, <3>1, <3>2, <3>3
  <2>7. i > Done(b)' => IsAwaited(b, posted[b][i])'
    <3>1. CASE b = a /\ i = n
      BY <2>2, <3>1
    <3>2. CASE i \in 1 .. Len(posted[b]) /\ posted'[b][i] = posted[b][i]
      BY <1>14, <2>1, <3>2 DEF ActorsInv, QueriesAwaited
    <3> QED
      BY <2>3, <3>1, <3>2
  <2> QED
    BY <2>5, <2>6, <2>7
<1> QED
  BY <1>2, <1>4, <1>10, <1>11, <1>12, <1>13, <1>14, <1>15 DEF ActorsInv

(* A caller that wakes copies the reply that its own request got.          *)
LEMMA AnsweredKeepsInv ==
  ASSUME ActorsInv, NEW w \in Threads, QueryIsAnswered(w)
  PROVE  ActorsInv'
<1>0. /\ pc[w] = "wait" /\ pendingQueries[asked[w]][request[w]].ready /\ Goto(w, "erase")
      /\ reply' = [reply EXCEPT ![w] = pendingQueries[asked[w]][request[w]]]
      /\ mailbox' = mailbox /\ pendingQueries' = pendingQueries
      /\ nextRequestId' = nextRequestId /\ item' = item /\ request' = request
      /\ asked' = asked /\ posts' = posts /\ posted' = posted /\ handled' = handled
  BY DEF QueryIsAnswered, boxVars
<1>1. /\ pc' \in [Threads -> Labels]
      /\ pc'[w] = "erase" /\ \A v \in Threads \ {w} : pc'[v] = pc[v]
  BY <1>0, StepOfThread DEF Labels
<1>2. Types'
  BY <1>0, <1>1 DEF ActorsInv, Types
<1>3. \A v \in Threads : Asking(v)' <=> Asking(v)
  BY <1>0, <1>1 DEF Asking
<1>4. MailboxOrder'
  BY <1>0 DEF ActorsInv, MailboxOrder
<1>5. RepliesMatch'
  <2>1. Asking(w)
    BY <1>0 DEF Asking
  <2>2. reply'[w].of = <<w, posts[w]>>
    BY <1>0, <2>1 DEF ActorsInv, AnswersMatch, Types
  <2>3. \A v \in Threads \ {w} : reply'[v] = reply[v]
    BY <1>0 DEF ActorsInv, Types
  <2> QED
    BY <1>0, <1>1, <2>2, <2>3 DEF ActorsInv, RepliesMatch
<1>6. PendingIsExact'
  <2>1. \A a \in Actors :
          {v \in Threads : asked'[v] = a /\ pc'[v] \in {"notifyQuery", "wait", "erase"}}
            = {v \in Threads : asked[v] = a /\ pc[v] \in {"notifyQuery", "wait", "erase"}}
    BY <1>0, <1>3 DEF Asking
  <2> QED
    BY <1>0, <2>1 DEF ActorsInv, PendingIsExact
<1>7. RequestsDistinct' /\ AnswersMatch'
  BY <1>0, <1>3 DEF ActorsInv, RequestsDistinct, AnswersMatch
<1>8. HandlesLast' /\ \A a \in Actors : Done(a)' = Done(a)
  BY <1>0, <1>1 DEF ActorsInv, HandlesLast, Done, Threads
<1>9. QueriesAwaited'
  <2>1. ASSUME NEW a \in Actors, NEW i \in 1 .. Len(posted[a]), IsAwaited(a, posted[a][i])
        PROVE  IsAwaited(a, posted[a][i])'
    <3>1. posted[a][i].from \in Threads \ {w}
      BY <1>0, <2>1, AwaitedHasEntry DEF IsAwaited
    <3> QED
      BY <1>0, <1>1, <2>1, <3>1 DEF IsAwaited
  <2> QED
    BY <1>0, <1>8, <2>1 DEF ActorsInv, QueriesAwaited
<1> QED
  BY <1>2, <1>4, <1>5, <1>6, <1>7, <1>8, <1>9 DEF ActorsInv

(* The entry of a query that returns goes; nobody else waits for it. *)
LEMMA ReturnsKeepsInv ==
  ASSUME ActorsInv, NEW w \in Threads, QueryReturns(w)
  PROVE  ActorsInv'
<1>0. /\ pc[w] = "erase"
      /\ pendingQueries' = [pendingQueries EXCEPT ![asked[w]] = [q \in DOMAIN @ \ {request[w]} |-> @[q]]]
      /\ asked' = [asked EXCEPT ![w] = "none"] /\ request' = [request EXCEPT ![w] = 0]
      /\ reply' = [reply EXCEPT ![w] = NoResult]
      /\ mailbox' = mailbox /\ nextRequestId' = nextRequestId /\ item' = item
      /\ posts' = posts /\ posted' = posted /\ handled' = handled
  BY DEF QueryReturns
<1>1. PICK l \in {"run", "failed"} : Goto(w, l)
  BY DEF QueryReturns
<1>2. /\ pc' \in [Threads -> Labels]
      /\ pc'[w] = l /\ \A v \in Threads \ {w} : pc'[v] = pc[v]
  BY <1>1, StepOfThread DEF Labels
<1>3. Types'
  BY <1>0, <1>2 DEF ActorsInv, Types
<1>4. PICK a \in Actors : a = asked[w] /\ request[w] \in DOMAIN pendingQueries[a]
  BY <1>0, EntryExists DEF Asking
<1>5. /\ \A b \in Actors \ {a} : pendingQueries'[b] = pendingQueries[b]
      /\ pendingQueries'[a] = [q \in DOMAIN pendingQueries[a] \ {request[w]} |-> pendingQueries[a][q]]
      /\ \A v \in Threads \ {w} :
           asked'[v] = asked[v] /\ request'[v] = request[v] /\ reply'[v] = reply[v]
  BY <1>0, <1>4 DEF ActorsInv, Types
<1>6. /\ Asking(w) /\ ~Asking(w)'
      /\ \A v \in Threads \ {w} : Asking(v)' <=> Asking(v)
  BY <1>0, <1>1, <1>2 DEF Asking
<1>7. \A v \in Threads \ {w} : Asking(v) /\ asked[v] = a => request[v] # request[w]
  BY <1>4, <1>6 DEF ActorsInv, RequestsDistinct
<1>8. MailboxOrder'
  BY <1>0 DEF ActorsInv, MailboxOrder
<1>9. RepliesMatch'
  BY <1>0, <1>1, <1>2, <1>5 DEF ActorsInv, RepliesMatch
<1>10. PendingIsExact'
  <2> DEFINE Q(b) == {v \in Threads : asked[v] = b /\ Asking(v)}
             R(b) == {v \in Threads : asked'[v] = b /\ Asking(v)'}
  <2>1. R(a) = Q(a) \ {w} /\ w \in Q(a)
    BY <1>4, <1>5, <1>6
  <2>2. \A b \in Actors \ {a} : R(b) = Q(b) /\ w \notin R(b)
    BY <1>4, <1>5, <1>6
  <2>3. \A b \in Actors : DOMAIN pendingQueries[b] = {request[v] : v \in Q(b)}
    BY DEF ActorsInv, PendingIsExact, Asking
  <2>4. DOMAIN pendingQueries'[a] = {request'[v] : v \in R(a)}
    <3>1. DOMAIN pendingQueries'[a] = {request[v] : v \in Q(a)} \ {request[w]}
      BY <1>5, <2>3
    <3>2. \A v \in Q(a) \ {w} : request[v] # request[w] /\ request'[v] = request[v]
      BY <1>5, <1>7
    <3> QED
      BY <2>1, <3>1, <3>2
  <2>5. \A b \in Actors \ {a} : DOMAIN pendingQueries'[b] = {request'[v] : v \in R(b)}
    BY <1>5, <2>2, <2>3
  <2> QED
    BY <2>4, <2>5 DEF PendingIsExact, Asking
<1>11. RequestsDistinct'
  <2>1. \A v \in Threads : Asking(v)' => Asking(v) /\ asked'[v] = asked[v] /\ request'[v] = request[v]
    BY <1>5, <1>6
  <2>2. nextRequestId' = nextRequestId /\ RequestsDistinct
    BY <1>0 DEF ActorsInv
  <2>3. \A v \in Threads : Asking(v)' =>
          asked'[v] \in Actors /\ request'[v] \in Nat /\ request'[v] < nextRequestId'[asked'[v]]
    BY ONLY <2>1, <2>2 DEF RequestsDistinct
  <2>4. ASSUME NEW u \in Threads, NEW v \in Threads, Asking(u)', Asking(v)',
               asked'[u] = asked'[v], request'[u] = request'[v]
        PROVE  u = v
    <3>1. Asking(u) /\ Asking(v) /\ asked[u] = asked[v] /\ request[u] = request[v]
      BY <2>1, <2>4
    <3> QED
      BY ONLY <3>1, <2>2, u \in Threads, v \in Threads DEF RequestsDistinct
  <2> QED
    BY ONLY <2>3, <2>4 DEF RequestsDistinct
<1>12. AnswersMatch'
  <2> SUFFICES ASSUME NEW v \in Threads, Asking(v)',
                      pendingQueries'[asked'[v]][request'[v]].ready
               PROVE  pendingQueries'[asked'[v]][request'[v]].of = <<v, posts'[v]>>
    BY DEF AnswersMatch
  <2>1. v # w /\ Asking(v)
    BY <1>6
  <2>2. asked[v] \in Actors /\ request[v] \in DOMAIN pendingQueries[asked[v]]
    BY <2>1, EntryExists
  <2>3. pendingQueries'[asked'[v]][request'[v]] = pendingQueries[asked[v]][request[v]]
    BY <1>5, <1>7, <2>1, <2>2
  <2> QED
    BY <1>0, <2>1, <2>3 DEF ActorsInv, AnswersMatch
<1>13. HandlesLast' /\ \A b \in Actors : Done(b)' = Done(b)
  BY <1>0, <1>1, <1>2 DEF ActorsInv, HandlesLast, Done, Threads
<1>14. QueriesAwaited'
  <2>1. ASSUME NEW b \in Actors, NEW i \in 1 .. Len(posted[b]), IsAwaited(b, posted[b][i])
        PROVE  IsAwaited(b, posted[b][i])'
    <3> DEFINE f == posted[b][i].from
    <3>1. f \in Threads /\ Asking(f) /\ posted[b][i].requestId \in DOMAIN pendingQueries[b]
      BY <2>1, AwaitedHasEntry
    <3>2. f # w
      BY <1>0, <2>1 DEF IsAwaited
    <3>3. pc'[f] = pc[f] /\ asked'[f] = asked[f] /\ request'[f] = request[f]
      BY <1>2, <1>5, <3>1, <3>2
    <3>4. asked[f] = b /\ request[f] = posted[b][i].requestId
      BY <2>1 DEF IsAwaited
    <3>5. pendingQueries'[b][posted[b][i].requestId] = pendingQueries[b][posted[b][i].requestId]
      BY <1>5, <1>7, <3>1, <3>2, <3>4
    <3> QED
      BY <1>0, <2>1, <3>3, <3>5 DEF IsAwaited
  <2> QED
    BY <1>0, <1>13, <2>1 DEF ActorsInv, QueriesAwaited
<1> QED
  BY <1>3, <1>8, <1>9, <1>10, <1>11, <1>12, <1>13, <1>14 DEF ActorsInv

(* A worker takes the item that is next in the posted order.               *)
LEMMA TakesKeepsInv ==
  ASSUME ActorsInv, NEW a \in Actors, WorkerTakes(a)
  PROVE  ActorsInv'
<1>0. /\ pc[a] = "mailbox" /\ mailbox[a] # <<>> /\ Goto(a, "run") /\ a \in Threads
      /\ item' = [item EXCEPT ![a] = Head(mailbox[a])]
      /\ handled' = [handled EXCEPT ![a] = Append(@, Head(mailbox[a]))]
      /\ mailbox' = [mailbox EXCEPT ![a] = Tail(@)]
      /\ pendingQueries' = pendingQueries /\ nextRequestId' = nextRequestId
      /\ asked' = asked /\ request' = request /\ reply' = reply
      /\ posts' = posts /\ posted' = posted
  BY DEF WorkerTakes, queryVars, Threads
<1>1. /\ pc' \in [Threads -> Labels]
      /\ pc'[a] = "run" /\ \A v \in Threads \ {a} : pc'[v] = pc[v]
  BY <1>0, StepOfThread DEF Labels
<1>2. /\ mailbox \in [Actors -> Seq(Items)] /\ handled \in [Actors -> Seq(Items)]
      /\ mailbox[a] \in Seq(Items) /\ handled[a] \in Seq(Items) /\ MailboxOrder
      /\ item \in [Actors -> Items \cup {NoItem}]
  BY DEF ActorsInv, Types
<1>3. Head(mailbox[a]) \in Items /\ Tail(mailbox[a]) \in Seq(Items)
  BY <1>0, <1>2, HeadTailProperties
<1>4. /\ Append(handled[a], Head(mailbox[a])) \in Seq(Items)
      /\ Append(handled[a], Head(mailbox[a])) # <<>>
      /\ Len(Append(handled[a], Head(mailbox[a]))) = Len(handled[a]) + 1
      /\ Append(handled[a], Head(mailbox[a]))[Len(handled[a]) + 1] = Head(mailbox[a])
      /\ Len(handled[a]) \in Nat
  BY <1>2, <1>3, AppendProperties
<1>5. /\ handled'[a] = Append(handled[a], Head(mailbox[a])) /\ mailbox'[a] = Tail(mailbox[a])
      /\ item'[a] = Head(mailbox[a])
      /\ \A b \in Actors \ {a} :
           handled'[b] = handled[b] /\ mailbox'[b] = mailbox[b] /\ item'[b] = item[b]
  BY <1>0, <1>2
<1>6. Types'
  <2>1. /\ mailbox' \in [Actors -> Seq(Items)] /\ handled' \in [Actors -> Seq(Items)]
        /\ item' \in [Actors -> Items \cup {NoItem}]
    BY <1>0, <1>2, <1>3, <1>4
  <2> QED
    BY <1>0, <1>1, <2>1 DEF ActorsInv, Types
<1>7. MailboxOrder'
  <2>1. handled[a] \o mailbox[a] = handled'[a] \o mailbox'[a]
    BY <1>0, <1>2, <1>5, HeadLeaves
  <2> QED
    BY <1>0, <1>2, <1>5, <2>1 DEF MailboxOrder
<1>8. \A v \in Threads : /\ Asking(v)' <=> Asking(v)
                         /\ pc'[v] # pc[v] => ~Asking(v)
  BY <1>0, <1>1 DEF Asking
<1>9. RepliesMatch'
  BY <1>0, <1>1 DEF ActorsInv, RepliesMatch
<1>10. PendingIsExact'
  <2>1. \A b \in Actors :
          {v \in Threads : asked'[v] = b /\ pc'[v] \in {"notifyQuery", "wait", "erase"}}
            = {v \in Threads : asked[v] = b /\ pc[v] \in {"notifyQuery", "wait", "erase"}}
    BY <1>0, <1>8 DEF Asking
  <2> QED
    BY <1>0, <2>1 DEF ActorsInv, PendingIsExact
<1>11. RequestsDistinct' /\ AnswersMatch'
  BY <1>0, <1>8 DEF ActorsInv, RequestsDistinct, AnswersMatch
<1>12. HandlesLast'
  BY <1>1, <1>4, <1>5 DEF ActorsInv, HandlesLast, Threads
<1>13. \A b \in Actors : Done(b)' = Done(b)
  <2>1. Done(a)' = Done(a)
    BY <1>0, <1>1, <1>4, <1>5 DEF Done
  <2> QED
    BY <1>1, <1>5, <2>1 DEF Done, Threads
<1>14. QueriesAwaited'
  <2>1. ASSUME NEW b \in Actors, NEW i \in 1 .. Len(posted[b]), IsAwaited(b, posted[b][i])
        PROVE  IsAwaited(b, posted[b][i])'
    <3>1. posted[b][i].from \in Threads /\ Asking(posted[b][i].from)
      BY <2>1, AwaitedHasEntry
    <3>2. pc'[posted[b][i].from] = pc[posted[b][i].from]
      BY <1>8, <3>1
    <3> QED
      BY <1>0, <2>1, <3>2 DEF IsAwaited
  <2> QED
    BY <1>0, <1>13, <2>1 DEF ActorsInv, QueriesAwaited
<1> QED
  BY <1>6, <1>7, <1>9, <1>10, <1>11, <1>12, <1>14 DEF ActorsInv

(* The item at hand is the posted item that comes after those that are over. *)
LEMMA ItemAtHand ==
  ASSUME ActorsInv, NEW a \in Actors, pc[a] # "mailbox"
  PROVE  /\ Len(handled[a]) \in 1 .. Len(posted[a])
         /\ item[a] = posted[a][Len(handled[a])]
         /\ Done(a) = Len(handled[a]) - 1
<1> DEFINE h == handled[a]  m == mailbox[a]  p == posted[a]
<1>1. h \in Seq(Items) /\ m \in Seq(Items) /\ p = h \o m /\ h # <<>> /\ item[a] = h[Len(h)]
  BY DEF ActorsInv, Types, MailboxOrder, HandlesLast
<1>2. Len(h) \in 1 .. Len(p) /\ p[Len(h)] = h[Len(h)]
  <2> HIDE DEF h, m, p
  <2>1. Len(h) \in Nat /\ Len(m) \in Nat /\ Len(h) # 0
    BY <1>1, LenProperties, EmptySeq
  <2>2. Len(p) = Len(h) + Len(m) /\ p[Len(h)] = h[Len(h)]
    BY <1>1, <2>1, ConcatProperties
  <2> QED
    BY <2>1, <2>2
<1> QED
  BY <1>1, <1>2 DEF Done

(* A worker that ends an item answers the query it came from, if any.      *)
LEMMA FinishKeepsInv ==
  ASSUME ActorsInv, NEW a \in Actors, NEW ok \in BOOLEAN,
         pc[a] \in {"run", "failed"}, Finish(a, ok)
  PROVE  ActorsInv'
<1>1. PICK n \in Nat, it \in Items :
        /\ n = Len(handled[a]) /\ n \in 1 .. Len(posted[a]) /\ it = posted[a][n]
        /\ it = item[a] /\ Done(a) = n - 1
  <2>1. /\ Len(handled[a]) \in 1 .. Len(posted[a]) /\ item[a] = posted[a][Len(handled[a])]
        /\ Done(a) = Len(handled[a]) - 1
    BY ItemAtHand
  <2>2. posted[a][Len(handled[a])] \in Items /\ Len(handled[a]) \in Nat
    BY <2>1, PostedItems DEF ActorsInv
  <2> QED
    BY <2>1, <2>2
<1>0. /\ Goto(a, "mailbox") /\ a \in Threads /\ item' = [item EXCEPT ![a] = NoItem]
      /\ mailbox' = mailbox /\ nextRequestId' = nextRequestId
      /\ asked' = asked /\ request' = request /\ reply' = reply
      /\ posts' = posts /\ posted' = posted /\ handled' = handled
      /\ IF it.kind = "query" /\ it.requestId \in DOMAIN pendingQueries[a]
           THEN pendingQueries' = [pendingQueries EXCEPT ![a][it.requestId] =
                  [ready |-> TRUE, ok |-> ok, of |-> <<it.from, it.call>>]]
           ELSE pendingQueries' = pendingQueries
  BY <1>1 DEF Finish, queryVars, Threads
<1>2. /\ pc' \in [Threads -> Labels]
      /\ pc'[a] = "mailbox" /\ \A v \in Threads \ {a} : pc'[v] = pc[v]
  BY <1>0, StepOfThread DEF Labels
<1>3. \A v \in Threads : /\ Asking(v)' <=> Asking(v)
                         /\ pc'[v] # pc[v] => ~Asking(v)
  BY <1>0, <1>2 DEF Asking
<1>4. it.kind = "query" =>
        /\ IsAwaited(a, it) /\ it.from \in Threads /\ Asking(it.from)
        /\ it.requestId \in DOMAIN pendingQueries[a]
  <2> SUFFICES ASSUME it.kind = "query"
               PROVE  /\ IsAwaited(a, it) /\ it.from \in Threads /\ Asking(it.from)
                      /\ it.requestId \in DOMAIN pendingQueries[a]
    OBVIOUS
  <2>1. IsAwaited(a, posted[a][n])
    <3>1. n \in 1 .. Len(posted[a]) /\ n > Done(a) /\ posted[a][n].kind = "query"
      BY <1>1
    <3>2. QueriesAwaited
      BY DEF ActorsInv
    <3> QED
      BY <3>1, <3>2 DEF QueriesAwaited
  <2> QED
    BY <1>1, <2>1, AwaitedHasEntry
<1>5. /\ \A b \in Actors \ {a} : pendingQueries'[b] = pendingQueries[b]
      /\ pendingQueries' = [b \in Actors |-> pendingQueries'[b]]
      /\ \A b \in Actors : DOMAIN pendingQueries'[b] = DOMAIN pendingQueries[b]
      /\ \A q \in DOMAIN pendingQueries[a] :
           (it.kind # "query" \/ q # it.requestId) => pendingQueries'[a][q] = pendingQueries[a][q]
      /\ it.kind = "query" => pendingQueries'[a][it.requestId].of = <<it.from, it.call>>
  <2>0. pendingQueries = [b \in Actors |-> pendingQueries[b]]
    BY DEF ActorsInv, Types
  <2>1. CASE it.kind = "query"
    <3>1. pendingQueries' = [pendingQueries EXCEPT ![a] = [pendingQueries[a] EXCEPT ![it.requestId] =
                  [ready |-> TRUE, ok |-> ok, of |-> <<it.from, it.call>>]]]
      BY <1>0, <1>4, <2>1
    <3> QED
      BY <1>4, <2>0, <2>1, <3>1
  <2>2. CASE it.kind # "query"
    BY <1>0, <2>0, <2>2
  <2> QED
    BY <2>1, <2>2
<1>6. Types'
  <2>1. item' \in [Actors -> Items \cup {NoItem}]
    BY <1>0 DEF ActorsInv, Types
  <2> QED
    BY <1>0, <1>2, <1>5, <2>1 DEF ActorsInv, Types
<1>7. MailboxOrder'
  BY <1>0 DEF ActorsInv, MailboxOrder
<1>8. RepliesMatch'
  BY <1>0, <1>2 DEF ActorsInv, RepliesMatch
<1>9. PendingIsExact'
  <2>1. \A b \in Actors :
          {v \in Threads : asked'[v] = b /\ pc'[v] \in {"notifyQuery", "wait", "erase"}}
            = {v \in Threads : asked[v] = b /\ pc[v] \in {"notifyQuery", "wait", "erase"}}
    BY <1>0, <1>3 DEF Asking
  <2> QED
    BY <1>0, <1>5, <2>1 DEF ActorsInv, PendingIsExact
<1>10. RequestsDistinct'
  BY <1>0, <1>3 DEF ActorsInv, RequestsDistinct
<1>11. AnswersMatch'
  <2> SUFFICES ASSUME NEW v \in Threads, Asking(v),
                      pendingQueries'[asked[v]][request[v]].ready
               PROVE  pendingQueries'[asked[v]][request[v]].of = <<v, posts[v]>>
    BY <1>0, <1>3 DEF AnswersMatch
  <2>1. asked[v] \in Actors /\ request[v] \in DOMAIN pendingQueries[asked[v]]
    BY EntryExists
  <2>2. CASE it.kind = "query" /\ asked[v] = a /\ request[v] = it.requestId
    <3>1. v = it.from
      BY <1>4, <2>2 DEF IsAwaited, ActorsInv, RequestsDistinct
    <3> QED
      BY <1>4, <1>5, <2>2, <3>1 DEF IsAwaited
  <2>3. CASE ~(it.kind = "query" /\ asked[v] = a /\ request[v] = it.requestId)
    <3>1. pendingQueries'[asked[v]][request[v]] = pendingQueries[asked[v]][request[v]]
      BY <1>5, <2>1, <2>3
    <3> QED
      BY <3>1 DEF ActorsInv, AnswersMatch
  <2> QED
    BY <2>2, <2>3
<1>12. HandlesLast'
  <2>1. item'[a] = NoItem /\ \A b \in Actors \ {a} : item'[b] = item[b]
    BY <1>0 DEF ActorsInv, Types
  <2> QED
    BY <1>0, <1>2, <2>1 DEF ActorsInv, HandlesLast, Threads
<1>13. Done(a)' = n /\ \A b \in Actors \ {a} : Done(b)' = Done(b)
  BY <1>0, <1>1, <1>2 DEF Done, Threads
<1>14. QueriesAwaited'
  <2>1. ASSUME NEW b \in Actors, NEW i \in 1 .. Len(posted[b]), IsAwaited(b, posted[b][i]),
               posted[b][i].kind = "query", b = a => i > n
        PROVE  IsAwaited(b, posted[b][i])'
    <3>1. /\ posted[b][i].from \in Threads /\ Asking(posted[b][i].from)
          /\ posted[b][i].requestId \in DOMAIN pendingQueries[b]
      BY <2>1, AwaitedHasEntry
    <3>2. pc'[posted[b][i].from] = pc[posted[b][i].from]
      BY <1>3, <3>1
    <3>3. b = a /\ it.kind = "query" => posted[b][i].requestId # it.requestId
      <4> SUFFICES ASSUME b = a, it.kind = "query", posted[a][i].requestId = it.requestId
                   PROVE  FALSE
        OBVIOUS
      <4>1. n \in 1 .. Len(posted[a]) /\ posted[a][n] = it /\ i > n /\ i \in 1 .. Len(posted[a])
        BY <1>1, <2>1
      <4>2. QueriesAwaited
        BY DEF ActorsInv
      <4>3. n = i
        BY <2>1, <4>1, <4>2 DEF QueriesAwaited
      <4> QED
        BY <4>1, <4>3
    <3>4. pendingQueries'[b][posted[b][i].requestId] = pendingQueries[b][posted[b][i].requestId]
      BY <1>5, <3>1, <3>3
    <3> QED
      BY <1>0, <2>1, <3>2, <3>4 DEF IsAwaited
  <2>2. ASSUME NEW b \in Actors, NEW i \in 1 .. Len(posted[b]), i > Done(b)'
        PROVE  i > Done(b) /\ (b = a => i > n)
    BY <1>1, <1>13, <2>2
  <2> QED
    BY <1>0, <2>1, <2>2 DEF ActorsInv, QueriesAwaited
<1> QED
  BY <1>6, <1>7, <1>8, <1>9, <1>10, <1>11, <1>12, <1>14 DEF ActorsInv

(* Every step keeps the invariant. *)
LEMMA StepKeepsInv == ActorsInv /\ [Next]_vars => ActorsInv'
<1> SUFFICES ASSUME ActorsInv, [Next]_vars PROVE ActorsInv'
  OBVIOUS
<1>1. ASSUME NEW w \in Threads, NEW a \in Actors, EnqueueActorSend(w, a) \/ EnqueueActorQuery(w, a)
      PROVE  ActorsInv'
  BY <1>1, SendKeepsInv, QueryKeepsInv
<1>2. ASSUME NEW w \in Threads, Running(w) \/ SelfQueryFails(w) \/ UnknownMethodFails(w)
      PROVE  ActorsInv'
  BY <1>2, QuietSteps, AnsweredKeepsInv, ReturnsKeepsInv DEF Running
<1>3. ASSUME NEW a \in Actors, WorkerStep(a) PROVE ActorsInv'
  BY <1>3, WorkerSleepsKeepsInv, TakesKeepsInv DEF WorkerStep
<1>4. ASSUME NEW a \in Actors, MethodEnds(a) PROVE ActorsInv'
  <2>1. CASE MethodReturns(a)
    BY <2>1, FinishKeepsInv DEF MethodReturns
  <2>2. CASE MethodFails(a)
    BY <2>2, FinishKeepsInv DEF MethodFails
  <2> QED
    BY <1>4, <2>1, <2>2 DEF MethodEnds
<1>5. CASE UNCHANGED vars
  BY <1>5, WorkerSleepsKeepsInv
<1> QED
  BY <1>1, <1>2, <1>3, <1>4, <1>5 DEF Next

-----------------------------------------------------------------------------
(* The theorems. *)

(* The invariant holds in every reachable state.                           *)
LEMMA InvAlways == Spec => []ActorsInv
  BY InitEstablishesInv, StepKeepsInv, PTL DEF Spec

(* RunActorWorker takes the items of a mailbox in the order in which sends *)
(* and queries of all threads were posted, and skips none.                 *)
THEOREM MailboxOrderTheorem == Spec => []MailboxOrder
<1>1. ActorsInv => MailboxOrder
  BY DEF ActorsInv
<1> QED
  BY <1>1, InvAlways, PTL

(* The answer that EnqueueActorQuery returns is the one to its own call,   *)
(* however many threads query the same actor and whether the method        *)
(* returned or raised an error.                                            *)
THEOREM RepliesMatchTheorem == Spec => []RepliesMatch
<1>1. ActorsInv => RepliesMatch
  BY DEF ActorsInv
<1> QED
  BY <1>1, InvAlways, PTL

(* pendingQueries holds the queries under way and nothing else: no answer  *)
(* finds its entry gone, and no entry is left behind.                      *)
THEOREM PendingTheorem == Spec => []PendingIsExact
<1>1. ActorsInv => PendingIsExact
  BY DEF ActorsInv
<1> QED
  BY <1>1, InvAlways, PTL
=============================================================================
