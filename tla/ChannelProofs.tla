--------------------------- MODULE ChannelProofs ---------------------------
(***************************************************************************)
(* For any number of tasks, calls and values and every capacity, the       *)
(* rendezvous of capacity 0 included: a channel loses, duplicates and      *)
(* reorders nothing, send answers the truth, and a close gives up nothing  *)
(* that was accepted.                                                      *)
(***************************************************************************)
EXTENDS Channel, SequenceTheorems, TLAPS

(* A rendezvous channel uses the slot only, a buffered one the queue only. *)
OneStore ==
  /\ capacity = 0 => queue = <<>>
  /\ capacity > 0 => ~ready
  /\ ready => slot \in Messages

(* Where a task can be, and how its calls and replies are counted: the     *)
(* k-th value of a sender belongs to its k-th call and its k-th reply.     *)
CallsCounted ==
  /\ \A s \in Senders :
       /\ pc[s] \in {"idle", "send", "handoff"}
       /\ calls[s] <= MaxSends
       /\ calls[s] = Len(replies[s]) + (IF pc[s] = "idle" THEN 0 ELSE 1)
  /\ \A r \in Receivers : pc[r] \in {"idle", "recv"}

(* A sender that waits for its receiver has put its value in. *)
OffersAccepted ==
  \A s \in Senders : pc[s] = "handoff" =>
    capacity = 0 /\ \E i \in 1 .. Len(accepted) : accepted[i] = Message(s)

(* The values that were accepted are those of calls that were made, and a  *)
(* call that has still to be accepted is not among them.                   *)
AcceptedWereSent ==
  \A s \in Senders, k \in 1 .. MaxSends, i \in 1 .. Len(accepted) :
    accepted[i] = <<s, k>> =>
      k <= calls[s] /\ (pc[s] = "send" => k < calls[s])

(* No value is put into the channel twice. *)
AcceptedOnce ==
  \A i, j \in 1 .. Len(accepted) : accepted[i] = accepted[j] => i = j

ChannelInv ==
  /\ ChannelTypeOK /\ OneStore /\ CallsCounted
  /\ Fifo /\ OffersAccepted /\ SendAnswersTruth /\ CloseDrains
  /\ AcceptedWereSent /\ AcceptedOnce

-----------------------------------------------------------------------------
(* Sequences. *)

(* A value that enters at the end leaves the order of the others alone. *)
LEMMA AppendEnters ==
  ASSUME NEW S, NEW r \in Seq(S), NEW q \in Seq(S), NEW m \in S
  PROVE  Append(r \o q, m) = r \o Append(q, m)
<1>1. r \o q \in Seq(S) /\ <<m>> \in Seq(S)
  BY ConcatProperties
<1>2. Append(r \o q, m) = (r \o q) \o <<m>> /\ Append(q, m) = q \o <<m>>
  BY <1>1, AppendIsConcat
<1> QED
  BY <1>1, <1>2, ConcatAssociative

(* A value that leaves at the front moves from one part to the other. *)
LEMMA HeadLeaves ==
  ASSUME NEW S, NEW r \in Seq(S), NEW q \in Seq(S), q # <<>>
  PROVE  r \o q = Append(r, Head(q)) \o Tail(q)
<1>1. Head(q) \in S /\ Tail(q) \in Seq(S) /\ <<Head(q)>> \in Seq(S)
  BY HeadTailProperties
<1>2. q = <<Head(q)>> \o Tail(q)
  BY <1>1, SMT
<1>3. Append(r, Head(q)) = r \o <<Head(q)>>
  BY <1>1, AppendIsConcat
<1>4. (r \o <<Head(q)>>) \o Tail(q) = r \o (<<Head(q)>> \o Tail(q))
  BY <1>1, ConcatAssociative
<1> QED
  BY <1>2, <1>3, <1>4

-----------------------------------------------------------------------------
(* The steps. *)

(* A new channel is empty and nobody has sent or received.                 *)
LEMMA InitEstablishesInv == Init => ChannelInv
<1> SUFFICES ASSUME Init PROVE ChannelInv
  OBVIOUS
<1> USE DEF Init
<1>1. ChannelTypeOK
  <2>1. <<>> \in Seq(Messages) /\ <<>> \in Seq(BOOLEAN) /\ Len(<<>>) = 0
    BY EmptySeq
  <2>2. capacity \in Nat
    BY ChannelAssumption
  <2>3. replies \in [Tasks -> Seq(BOOLEAN)]
    BY <2>1
  <2>4. pc \in [Tasks -> {"idle", "send", "handoff", "recv"}] /\ calls \in [Tasks -> Nat]
    OBVIOUS
  <2>5. Len(queue) <= capacity
    BY <2>1, <2>2
  <2> QED
    BY <2>1, <2>3, <2>4, <2>5 DEF ChannelTypeOK
<1>2. OneStore /\ OffersAccepted
  BY DEF OneStore, OffersAccepted, Tasks
<1>6. CallsCounted
  <2>1. Len(<<>>) = 0 /\ MaxSends \in Nat
    BY ChannelAssumption
  <2> QED
    BY <2>1 DEF CallsCounted, Tasks
<1>3. Fifo
  BY DEF Fifo, Contents
<1>4. SendAnswersTruth /\ CloseDrains
  BY DEF SendAnswersTruth, Answered, CloseDrains, Tasks
<1>5. AcceptedWereSent /\ AcceptedOnce
  BY DEF AcceptedWereSent, AcceptedOnce
<1> QED
  BY <1>1, <1>2, <1>3, <1>4, <1>5, <1>6 DEF ChannelInv

(* What a sender puts in is a value of its own, not put in before. *)
LEMMA MessageIsFresh ==
  ASSUME ChannelInv, NEW s \in Senders, pc[s] = "send"
  PROVE  /\ Message(s) \in Messages
         /\ \A i \in 1 .. Len(accepted) : accepted[i] # Message(s)
<1>1. calls[s] \in 1 .. MaxSends
  BY ChannelAssumption DEF ChannelInv, ChannelTypeOK, CallsCounted, Tasks
<1> QED
  BY <1>1 DEF ChannelInv, AcceptedWereSent, Message, Messages

(* A call that returns adds one reply to those of its task. *)
LEMMA OneMoreReply ==
  ASSUME ChannelTypeOK, NEW t \in Tasks, NEW b \in BOOLEAN, Returns(t, b)
  PROVE  /\ pc' \in [Tasks -> {"idle", "send", "handoff", "recv"}]
         /\ pc'[t] = "idle" /\ \A u \in Tasks \ {t} : pc'[u] = pc[u]
         /\ replies' \in [Tasks -> Seq(BOOLEAN)]
         /\ \A u \in Tasks \ {t} : replies'[u] = replies[u]
         /\ Len(replies'[t]) = Len(replies[t]) + 1
         /\ \A i \in 1 .. Len(replies[t]) : replies'[t][i] = replies[t][i]
         /\ replies'[t][Len(replies[t]) + 1] = b
<1>1. replies[t] \in Seq(BOOLEAN) /\ replies'[t] = Append(replies[t], b)
  BY DEF ChannelTypeOK, Returns
<1>2. Append(replies[t], b) \in Seq(BOOLEAN)
  BY <1>1, AppendProperties
<1>3. /\ Len(replies'[t]) = Len(replies[t]) + 1
      /\ \A i \in 1 .. Len(replies[t]) : replies'[t][i] = replies[t][i]
      /\ replies'[t][Len(replies[t]) + 1] = b
  BY <1>1, AppendProperties
<1> QED
  BY <1>1, <1>2, <1>3 DEF ChannelTypeOK, Returns

(* The returned call is counted by its reply. *)
LEMMA ReturnIsCounted ==
  ASSUME ChannelInv, NEW t \in Tasks, NEW b \in BOOLEAN, Returns(t, b),
         pc[t] # "idle", calls' = calls
  PROVE  CallsCounted'
<1>1. /\ pc'[t] = "idle" /\ \A u \in Tasks \ {t} : pc'[u] = pc[u]
      /\ Len(replies'[t]) = Len(replies[t]) + 1
      /\ \A u \in Tasks \ {t} : replies'[u] = replies[u]
  BY OneMoreReply DEF ChannelInv
<1>2. CallsCounted /\ Len(replies[t]) \in Nat
  BY DEF ChannelInv, ChannelTypeOK
<1>3. ASSUME NEW s \in Senders
      PROVE  /\ pc'[s] \in {"idle", "send", "handoff"}
             /\ calls'[s] <= MaxSends
             /\ calls'[s] = Len(replies'[s]) + (IF pc'[s] = "idle" THEN 0 ELSE 1)
  <2>1. CASE s = t
    <3>1. calls[t] = Len(replies[t]) + 1 /\ calls[t] <= MaxSends
      BY <1>2, <2>1 DEF CallsCounted
    <3> QED
      BY <1>1, <1>2, <2>1, <3>1
  <2>2. CASE s # t
    BY <1>1, <1>2, <2>2 DEF CallsCounted, Tasks
  <2> QED
    BY <2>1, <2>2
<1>4. ASSUME NEW r \in Receivers PROVE pc'[r] \in {"idle", "recv"}
  BY <1>1, <1>2 DEF CallsCounted, Tasks
<1> QED
  BY <1>3, <1>4 DEF CallsCounted

(* As long as no value enters, only calls move on. *)
LEMMA AcceptedKept ==
  ASSUME ChannelInv, accepted' = accepted, capacity' = capacity,
         \A s \in Senders : pc'[s] # "idle" =>
           \/ calls'[s] = calls[s] /\ pc'[s] = pc[s]
           \/ pc'[s] = "send" /\ calls'[s] = calls[s] + 1,
         \A s \in Senders : pc'[s] = "idle" => calls'[s] = calls[s]
  PROVE  OffersAccepted' /\ AcceptedWereSent' /\ AcceptedOnce'
<1>1. OffersAccepted'
  BY DEF ChannelInv, OffersAccepted, Message
<1>2. AcceptedOnce'
  BY DEF ChannelInv, AcceptedOnce
<1>3. ASSUME NEW s \in Senders, NEW k \in 1 .. MaxSends, NEW i \in 1 .. Len(accepted),
             accepted[i] = <<s, k>>
      PROVE  k <= calls'[s] /\ (pc'[s] = "send" => k < calls'[s])
  <2>1. k <= calls[s] /\ (pc[s] = "send" => k < calls[s]) /\ calls[s] \in Nat
    BY <1>3 DEF ChannelInv, AcceptedWereSent, ChannelTypeOK, Tasks
  <2> QED
    BY <2>1
<1>4. AcceptedWereSent'
  BY <1>3 DEF AcceptedWereSent
<1> QED
  BY <1>1, <1>2, <1>4

(* What was put in and what was taken out only grow, so an answer that was *)
(* true stays true; only a new one has to be justified.                    *)
LEMMA TruthKept ==
  ASSUME ChannelInv, capacity' = capacity,
         accepted' \in Seq(Messages), received' \in Seq(Messages),
         Len(accepted) <= Len(accepted'), Len(received) <= Len(received'),
         \A i \in 1 .. Len(accepted) : accepted'[i] = accepted[i],
         \A s \in Senders, k \in 1 .. MaxSends :
           Answered(s, k, TRUE)' => Answered(s, k, TRUE) \/
             \E i \in 1 .. Len(accepted') :
               accepted'[i] = <<s, k>> /\ (capacity = 0 => i <= Len(received'))
  PROVE  SendAnswersTruth'
<1>1. ASSUME NEW s \in Senders, NEW k \in 1 .. MaxSends, Answered(s, k, TRUE)
      PROVE  \E i \in 1 .. Len(accepted') :
               accepted'[i] = <<s, k>> /\ (capacity = 0 => i <= Len(received'))
  <2>1. PICK i \in 1 .. Len(accepted) :
               accepted[i] = <<s, k>> /\ (capacity = 0 => i <= Len(received))
    BY <1>1 DEF ChannelInv, SendAnswersTruth
  <2>2. /\ Len(accepted) \in Nat /\ Len(accepted') \in Nat
        /\ Len(received) \in Nat /\ Len(received') \in Nat
    BY DEF ChannelInv, ChannelTypeOK
  <2> QED
    BY <2>1, <2>2
<1> QED
  BY <1>1 DEF SendAnswersTruth

(* A return that moves no value. *)
LEMMA ReturnKeepsInv ==
  ASSUME ChannelInv, NEW t \in Tasks, NEW b \in BOOLEAN, Returns(t, b),
         pc[t] # "idle",
         UNCHANGED <<chanVars, notFull, notEmpty, calls, accepted, received>>,
         t \in Senders /\ b => \E i \in 1 .. Len(accepted) :
           accepted[i] = Message(t) /\ (capacity = 0 => i <= Len(received)),
         t \in Receivers /\ ~b => closed /\ Contents = <<>>
  PROVE  ChannelInv'
<1>0. /\ capacity' = capacity /\ queue' = queue /\ closed' = closed
      /\ ready' = ready /\ slot' = slot /\ notFull' = notFull /\ notEmpty' = notEmpty
      /\ calls' = calls /\ accepted' = accepted /\ received' = received
  BY DEF chanVars
<1>1. /\ pc' \in [Tasks -> {"idle", "send", "handoff", "recv"}]
      /\ pc'[t] = "idle" /\ \A u \in Tasks \ {t} : pc'[u] = pc[u]
      /\ replies' \in [Tasks -> Seq(BOOLEAN)]
      /\ \A u \in Tasks \ {t} : replies'[u] = replies[u]
      /\ Len(replies'[t]) = Len(replies[t]) + 1
      /\ \A i \in 1 .. Len(replies[t]) : replies'[t][i] = replies[t][i]
      /\ replies'[t][Len(replies[t]) + 1] = b
  BY OneMoreReply DEF ChannelInv
<1>2. ChannelTypeOK'
  BY <1>0, <1>1 DEF ChannelInv, ChannelTypeOK
<1>3. OneStore' /\ Fifo'
  BY <1>0 DEF ChannelInv, OneStore, Fifo, Contents
<1>4. CallsCounted'
  BY <1>0, ReturnIsCounted
<1>5. OffersAccepted' /\ AcceptedWereSent' /\ AcceptedOnce'
  <2>1. \A s \in Senders : pc'[s] # "idle" =>
           \/ calls'[s] = calls[s] /\ pc'[s] = pc[s]
           \/ pc'[s] = "send" /\ calls'[s] = calls[s] + 1
    <3>1. \A s \in Senders : pc'[s] # "idle" => calls'[s] = calls[s] /\ pc'[s] = pc[s]
      BY <1>0, <1>1 DEF Tasks
    <3> QED
      BY <3>1, Zenon
  <2>2. \A s \in Senders : pc'[s] = "idle" => calls'[s] = calls[s]
    BY <1>0
  <2> QED
    BY <1>0, <2>1, <2>2, AcceptedKept
<1>6. SendAnswersTruth'
  <2>1. ASSUME NEW s \in Senders, NEW k \in 1 .. MaxSends,
               Answered(s, k, TRUE)', ~Answered(s, k, TRUE)
        PROVE  \E i \in 1 .. Len(accepted) :
                 accepted[i] = <<s, k>> /\ (capacity = 0 => i <= Len(received))
    <3>1. s = t
      BY <1>1, <2>1 DEF Answered, Tasks
    <3>2. Len(replies[t]) \in Nat
      BY DEF ChannelInv, ChannelTypeOK
    <3>3. k = Len(replies[t]) + 1
      BY <1>1, <2>1, <3>1, <3>2 DEF Answered
    <3>4. b
      BY <1>1, <2>1, <3>1, <3>3 DEF Answered
    <3>5. Message(t) = <<s, k>>
      BY <3>1, <3>2, <3>3 DEF Message, ChannelInv, CallsCounted
    <3> QED
      BY <3>1, <3>4, <3>5
  <2>2. Len(accepted) \in Nat /\ Len(received) \in Nat
    BY DEF ChannelInv, ChannelTypeOK
  <2>3. accepted' \in Seq(Messages) /\ received' \in Seq(Messages)
    BY <1>2 DEF ChannelTypeOK
  <2>4. /\ Len(accepted) <= Len(accepted') /\ Len(received) <= Len(received')
        /\ \A i \in 1 .. Len(accepted) : accepted'[i] = accepted[i]
    BY <1>0, <2>2
  <2>5. \A s \in Senders, k \in 1 .. MaxSends :
           Answered(s, k, TRUE)' => Answered(s, k, TRUE) \/
             \E i \in 1 .. Len(accepted') :
               accepted'[i] = <<s, k>> /\ (capacity = 0 => i <= Len(received'))
    BY <1>0, <2>1
  <2> QED
    BY <1>0, <2>3, <2>4, <2>5, TruthKept
<1>7. CloseDrains'
  <2> SUFFICES ASSUME NEW r \in Receivers, NEW i \in 1 .. Len(replies'[r]), ~replies'[r][i]
               PROVE  closed /\ Contents = <<>>
    BY <1>0 DEF CloseDrains, Contents
  <2>1. Len(replies[t]) \in Nat
    BY DEF ChannelInv, ChannelTypeOK
  <2>2. CASE r # t
    BY <1>1, <2>2 DEF ChannelInv, CloseDrains, Tasks
  <2>3. CASE r = t /\ i \in 1 .. Len(replies[t])
    BY <1>1, <2>3 DEF ChannelInv, CloseDrains
  <2>4. CASE r = t /\ i = Len(replies[t]) + 1
    BY <1>1, <2>4
  <2> QED
    BY <1>1, <2>1, <2>2, <2>3, <2>4
<1> QED
  BY <1>2, <1>3, <1>4, <1>5, <1>6, <1>7 DEF ChannelInv

(* A call that begins. *)
LEMMA BeginKeepsInv ==
  ASSUME ChannelInv
  PROVE  /\ \A s \in Senders : Send(s) => ChannelInv'
         /\ \A r \in Receivers : Recv(r) => ChannelInv'
<1> SUFFICES ASSUME NEW t \in Tasks, NEW p \in {"send", "recv"},
                    p = "send" => t \in Senders /\ calls[t] < MaxSends,
                    p = "recv" => t \in Receivers,
                    pc[t] = "idle",
                    calls' = [calls EXCEPT ![t] = @ + 1],
                    pc' = [pc EXCEPT ![t] = p],
                    UNCHANGED <<chanVars, notFull, notEmpty, accepted, received, replies>>
             PROVE  ChannelInv'
  BY DEF Send, Recv, Tasks
<1>0. /\ capacity' = capacity /\ queue' = queue /\ closed' = closed
      /\ ready' = ready /\ slot' = slot /\ notFull' = notFull /\ notEmpty' = notEmpty
      /\ replies' = replies /\ accepted' = accepted /\ received' = received
  BY DEF chanVars
<1>1. ChannelTypeOK'
  BY <1>0 DEF ChannelInv, ChannelTypeOK
<1>2. OneStore' /\ Fifo' /\ SendAnswersTruth' /\ CloseDrains'
  <2>1. OneStore' /\ Fifo'
    BY <1>0 DEF ChannelInv, OneStore, Fifo, Contents
  <2>2. SendAnswersTruth'
    BY <1>0 DEF ChannelInv, SendAnswersTruth, Answered
  <2>3. CloseDrains'
    BY <1>0 DEF ChannelInv, CloseDrains, Contents
  <2> QED
    BY <2>1, <2>2, <2>3
<1>3. /\ pc'[t] = p /\ calls'[t] = calls[t] + 1 /\ calls[t] \in Nat
      /\ \A u \in Tasks \ {t} : pc'[u] = pc[u] /\ calls'[u] = calls[u]
  BY DEF ChannelInv, ChannelTypeOK
<1>4. CallsCounted'
  <2>1. CallsCounted /\ MaxSends \in Nat /\ Senders \cap Receivers = {}
    BY ChannelAssumption DEF ChannelInv
  <2>2. ASSUME NEW s \in Senders
        PROVE  /\ pc'[s] \in {"idle", "send", "handoff"}
               /\ calls'[s] <= MaxSends
               /\ calls'[s] = Len(replies[s]) + (IF pc'[s] = "idle" THEN 0 ELSE 1)
    <3>1. CASE s = t
      <4>1. p = "send" /\ calls[t] = Len(replies[t]) + 0
        BY <2>1, <3>1 DEF CallsCounted
      <4>2. Len(replies[t]) \in Nat
        BY DEF ChannelInv, ChannelTypeOK
      <4>3. calls[t] < MaxSends /\ pc'[t] = "send"
        BY <1>3, <4>1
      <4>4. calls'[t] = Len(replies[t]) + 1 /\ calls'[t] <= MaxSends
        BY <1>3, <2>1, <4>1, <4>2, <4>3
      <4> QED
        BY <3>1, <4>3, <4>4
    <3>2. CASE s # t
      BY <1>3, <2>1, <3>2 DEF CallsCounted, Tasks
    <3> QED
      BY <3>1, <3>2
  <2>3. \A r \in Receivers : pc'[r] \in {"idle", "recv"}
    BY <1>3, <2>1 DEF CallsCounted, Tasks
  <2> QED
    BY <1>0, <2>2, <2>3 DEF CallsCounted
<1>5. OffersAccepted' /\ AcceptedWereSent' /\ AcceptedOnce'
  <2>1. ASSUME NEW s \in Senders
        PROVE  /\ pc'[s] # "idle" =>
                   \/ calls'[s] = calls[s] /\ pc'[s] = pc[s]
                   \/ pc'[s] = "send" /\ calls'[s] = calls[s] + 1
               /\ pc'[s] = "idle" => calls'[s] = calls[s]
    <3>1. CASE s = t
      BY <1>3, <3>1, ChannelAssumption
    <3>2. CASE s # t
      BY <1>3, <3>2 DEF Tasks
    <3> QED
      BY <3>1, <3>2
  <2> QED
    BY <1>0, <2>1, AcceptedKept
<1> QED
  BY <1>1, <1>2, <1>4, <1>5 DEF ChannelInv

(* Blocking, waking and closing move no value and end no call. *)
LEMMA WaitKeepsInv ==
  ASSUME ChannelInv,
         capacity' = capacity, queue' = queue, ready' = ready, slot' = slot,
         pc' = pc, calls' = calls, replies' = replies,
         accepted' = accepted, received' = received,
         closed' \in BOOLEAN, closed => closed',
         notFull' \subseteq Senders, notEmpty' \subseteq Receivers
  PROVE  ChannelInv'
<1>1. ChannelTypeOK'
  BY DEF ChannelInv, ChannelTypeOK
<1>2. OneStore' /\ Fifo' /\ CloseDrains'
  BY DEF ChannelInv, OneStore, Fifo, CloseDrains, Contents
<1>3. SendAnswersTruth' /\ CallsCounted'
  BY DEF ChannelInv, SendAnswersTruth, Answered, CallsCounted
<1>4. OffersAccepted' /\ AcceptedWereSent' /\ AcceptedOnce'
  BY DEF ChannelInv, OffersAccepted, Message, AcceptedWereSent, AcceptedOnce
<1> QED
  BY <1>1, <1>2, <1>3, <1>4 DEF ChannelInv

(* notify_one wakes tasks that were blocked. *)
LEMMA NotifyWakesBlocked ==
  ASSUME NEW w, NEW new, NotifyOne(w, new)
  PROVE  new \subseteq w
BY DEF NotifyOne

(* A value enters: it was not accepted before, and it is the newest. *)
LEMMA ValueEnters ==
  ASSUME ChannelInv, NEW s \in Senders, pc[s] = "send", calls' = calls,
         accepted' = Append(accepted, Message(s)),
         pc'[s] # "send", \A u \in Senders \ {s} : pc'[u] = pc[u]
  PROVE  /\ accepted' \in Seq(Messages) /\ Len(accepted') = Len(accepted) + 1
         /\ \A i \in 1 .. Len(accepted) : accepted'[i] = accepted[i]
         /\ accepted'[Len(accepted) + 1] = Message(s)
         /\ AcceptedWereSent' /\ AcceptedOnce'
<1>1. Message(s) \in Messages /\ \A i \in 1 .. Len(accepted) : accepted[i] # Message(s)
  BY MessageIsFresh
<1>2. accepted \in Seq(Messages) /\ Len(accepted) \in Nat
  BY DEF ChannelInv, ChannelTypeOK
<1>3. /\ accepted' \in Seq(Messages) /\ Len(accepted') = Len(accepted) + 1
      /\ \A i \in 1 .. Len(accepted) : accepted'[i] = accepted[i]
      /\ accepted'[Len(accepted) + 1] = Message(s)
  BY <1>1, <1>2, AppendProperties
<1>4. AcceptedOnce'
  <2> SUFFICES ASSUME NEW i \in 1 .. Len(accepted) + 1, NEW j \in 1 .. Len(accepted) + 1,
                      accepted'[i] = accepted'[j]
               PROVE  i = j
    BY <1>3 DEF AcceptedOnce
  <2>1. CASE i \in 1 .. Len(accepted) /\ j \in 1 .. Len(accepted)
    BY <1>3, <2>1 DEF ChannelInv, AcceptedOnce
  <2>2. CASE i = Len(accepted) + 1 \/ j = Len(accepted) + 1
    BY <1>1, <1>2, <1>3, <2>2
  <2> QED
    BY <1>2, <2>1, <2>2
<1>5. AcceptedWereSent'
  <2> SUFFICES ASSUME NEW u \in Senders, NEW k \in 1 .. MaxSends,
                      NEW i \in 1 .. Len(accepted) + 1, accepted'[i] = <<u, k>>
               PROVE  k <= calls[u] /\ (pc'[u] = "send" => k < calls[u])
    BY <1>3 DEF AcceptedWereSent
  <2>1. CASE i \in 1 .. Len(accepted)
    BY <1>3, <2>1 DEF ChannelInv, AcceptedWereSent
  <2>2. CASE i = Len(accepted) + 1
    BY <1>3, <2>2 DEF Message
  <2> QED
    BY <1>2, <2>1, <2>2
<1> QED
  BY <1>3, <1>4, <1>5

(* A buffered send puts a message behind those already queued.             *)
LEMMA SendQueuesKeepsInv ==
  ASSUME ChannelInv, NEW s \in Senders, SendQueues(s)
  PROVE  ChannelInv'
<1> DEFINE m == Message(s)
<1>0. /\ capacity' = capacity /\ closed' = closed /\ ready' = ready /\ slot' = slot
      /\ notFull' = notFull /\ calls' = calls /\ received' = received
      /\ queue' = Append(queue, m) /\ accepted' = Append(accepted, m)
      /\ capacity > 0 /\ pc[s] = "send" /\ ~closed /\ Len(queue) < capacity
      /\ s \in Tasks /\ Returns(s, TRUE)
  <2>1. capacity \in Nat
    BY ChannelAssumption DEF ChannelInv, ChannelTypeOK
  <2>2. capacity > 0 /\ HasRoom
    BY DEF SendQueues
  <2>3. Len(queue) < capacity
    BY <2>1, <2>2 DEF HasRoom
  <2> QED
    BY <2>2, <2>3 DEF SendQueues, Tasks
<1>1. /\ ChannelTypeOK /\ OneStore /\ Fifo /\ OffersAccepted
      /\ Len(queue) \in Nat /\ Len(accepted) \in Nat /\ Len(received) \in Nat
      /\ capacity \in Nat /\ Senders \cap Receivers = {} /\ ~ready
  BY <1>0, ChannelAssumption DEF ChannelInv, ChannelTypeOK, OneStore
<1>2. /\ pc' \in [Tasks -> {"idle", "send", "handoff", "recv"}]
      /\ pc'[s] = "idle" /\ \A u \in Tasks \ {s} : pc'[u] = pc[u]
      /\ replies' \in [Tasks -> Seq(BOOLEAN)]
      /\ \A u \in Tasks \ {s} : replies'[u] = replies[u]
      /\ Len(replies'[s]) = Len(replies[s]) + 1
      /\ \A i \in 1 .. Len(replies[s]) : replies'[s][i] = replies[s][i]
  <2>1. TRUE \in BOOLEAN
    OBVIOUS
  <2> QED
    BY <1>0, <1>1, <2>1, OneMoreReply
<1>14. /\ Len(replies[s]) \in Nat
      /\ received \in Seq(Messages) /\ queue \in Seq(Messages)
  BY <1>0, <1>1 DEF ChannelTypeOK
<1>3. m \in Messages
  BY <1>0, MessageIsFresh
<1>4. queue' \in Seq(Messages) /\ Len(queue') = Len(queue) + 1
  BY <1>0, <1>1, <1>3, AppendProperties DEF ChannelTypeOK
<1>5. /\ accepted' \in Seq(Messages) /\ Len(accepted') = Len(accepted) + 1
      /\ \A i \in 1 .. Len(accepted) : accepted'[i] = accepted[i]
      /\ accepted'[Len(accepted) + 1] = m
      /\ AcceptedWereSent' /\ AcceptedOnce'
  <2>1. pc'[s] # "send" /\ \A u \in Senders \ {s} : pc'[u] = pc[u]
    BY <1>2 DEF Tasks
  <2> QED
    BY <1>0, <2>1, ValueEnters
<1>6. ChannelTypeOK'
  <2>1. notEmpty' \subseteq Receivers
    BY <1>1, NotifyWakesBlocked DEF SendQueues, ChannelTypeOK
  <2>2. Len(queue') <= capacity'
    BY <1>0, <1>1, <1>4
  <2> QED
    BY <1>0, <1>1, <1>2, <1>4, <1>5, <2>1, <2>2 DEF ChannelTypeOK
<1>7. OneStore'
  BY <1>0, <1>1 DEF OneStore
<1>8. CallsCounted'
  BY <1>0, ReturnIsCounted
<1>9. Fifo'
  <2>1. Append(received \o queue, m) = received \o Append(queue, m)
    BY <1>3, <1>14, AppendEnters
  <2> QED
    BY <1>0, <1>1, <2>1 DEF Fifo, Contents
<1>10. OffersAccepted'
  <2>1. \A u \in Senders : pc'[u] # "handoff"
    BY <1>0, <1>1, <1>2 DEF OffersAccepted, Tasks
  <2> QED
    BY <2>1 DEF OffersAccepted
<1>11. SendAnswersTruth'
  <2>1. ASSUME NEW u \in Senders, NEW k \in 1 .. MaxSends,
               Answered(u, k, TRUE)', ~Answered(u, k, TRUE)
        PROVE  u = s /\ k = calls[s]
    <3>1. u = s
      BY <1>2, <2>1 DEF Answered, Tasks
    <3>2. k = Len(replies[s]) + 1
      BY <1>2, <1>14, <2>1, <3>1 DEF Answered
    <3> QED
      BY <1>0, <1>14, <3>1, <3>2 DEF ChannelInv, CallsCounted
  <2>2. Len(accepted) + 1 \in 1 .. Len(accepted') /\ capacity # 0
    BY <1>0, <1>1, <1>5
  <2>4. \A u \in Senders, k \in 1 .. MaxSends :
          Answered(u, k, TRUE)' => Answered(u, k, TRUE) \/
            \E i \in 1 .. Len(accepted') :
              accepted'[i] = <<u, k>> /\ (capacity = 0 => i <= Len(received'))
    BY <1>5, <2>1, <2>2 DEF Message
  <2>3. /\ received' \in Seq(Messages) /\ Len(accepted) <= Len(accepted')
        /\ Len(received) <= Len(received')
    BY <1>0, <1>1, <1>5, <1>6 DEF ChannelTypeOK
  <2> QED
    BY <1>0, <1>5, <2>4, <2>3, TruthKept
<1>12. CloseDrains'
  <2>1. \A r \in Receivers : replies'[r] = replies[r]
    BY <1>1, <1>2 DEF Tasks
  <2> QED
    BY <1>0, <2>1 DEF ChannelInv, CloseDrains
<1> QED
  BY <1>5, <1>6, <1>7, <1>8, <1>9, <1>10, <1>11, <1>12 DEF ChannelInv

(* A send on an unbuffered channel fills the empty slot.                   *)
LEMMA SendOffersKeepsInv ==
  ASSUME ChannelInv, NEW s \in Senders, SendOffers(s)
  PROVE  ChannelInv'
<1> DEFINE m == Message(s)
<1>0. /\ capacity' = capacity /\ closed' = closed /\ queue' = queue
      /\ notFull' = notFull /\ calls' = calls /\ received' = received /\ replies' = replies
      /\ ready' = TRUE /\ slot' = m /\ accepted' = Append(accepted, m)
      /\ capacity = 0 /\ pc[s] = "send" /\ ~closed /\ ~ready
      /\ s \in Tasks /\ pc' = [pc EXCEPT ![s] = "handoff"]
  BY DEF SendOffers, HasRoom, Tasks
<1>1. /\ ChannelTypeOK /\ OneStore /\ Fifo /\ OffersAccepted /\ CallsCounted
      /\ Len(accepted) \in Nat /\ Len(received) \in Nat
      /\ queue = <<>> /\ Senders \cap Receivers = {}
  BY <1>0, ChannelAssumption DEF ChannelInv, ChannelTypeOK, OneStore
<1>2. /\ pc' \in [Tasks -> {"idle", "send", "handoff", "recv"}]
      /\ pc'[s] = "handoff" /\ \A u \in Tasks \ {s} : pc'[u] = pc[u]
  BY <1>0, <1>1 DEF ChannelTypeOK
<1>3. m \in Messages
  BY <1>0, MessageIsFresh
<1>5. /\ accepted' \in Seq(Messages) /\ Len(accepted') = Len(accepted) + 1
      /\ \A i \in 1 .. Len(accepted) : accepted'[i] = accepted[i]
      /\ accepted'[Len(accepted) + 1] = m
      /\ AcceptedWereSent' /\ AcceptedOnce'
  <2>1. pc'[s] # "send" /\ \A u \in Senders \ {s} : pc'[u] = pc[u]
    BY <1>2 DEF Tasks
  <2> QED
    BY <1>0, <2>1, ValueEnters
<1>6. ChannelTypeOK'
  <2>1. notEmpty' \subseteq Receivers
    BY <1>1, NotifyWakesBlocked DEF SendOffers, ChannelTypeOK
  <2> QED
    BY <1>0, <1>1, <1>2, <1>3, <1>5, <2>1 DEF ChannelTypeOK
<1>7. OneStore'
  BY <1>0, <1>1, <1>3 DEF OneStore
<1>8. CallsCounted'
  <2>1. \A u \in Senders : pc'[u] = pc[u] \/ (pc'[u] = "handoff" /\ pc[u] = "send")
    BY <1>0, <1>2 DEF Tasks
  <2>2. \A r \in Receivers : pc'[r] = pc[r]
    BY <1>1, <1>2 DEF Tasks
  <2> QED
    BY <1>0, <1>1, <2>1, <2>2 DEF CallsCounted
<1>9. Fifo'
  <2>1. accepted = received
    BY <1>0, <1>1, ConcatEmptySeq DEF Fifo, Contents, ChannelTypeOK
  <2>2. Append(received, m) = received \o <<m>>
    BY <1>1, <1>3, AppendIsConcat DEF ChannelTypeOK
  <2> QED
    BY <1>0, <2>1, <2>2 DEF Fifo, Contents
<1>10. OffersAccepted'
  <2> SUFFICES ASSUME NEW u \in Senders, pc'[u] = "handoff"
               PROVE  \E i \in 1 .. Len(accepted') : accepted'[i] = Message(u)
    BY <1>0 DEF OffersAccepted, Message
  <2>1. CASE u = s
    BY <1>1, <1>5, <2>1
  <2>2. CASE u # s
    <3>1. PICK i \in 1 .. Len(accepted) : accepted[i] = Message(u)
      BY <1>1, <1>2, <2>2 DEF OffersAccepted, Tasks
    <3> QED
      BY <1>1, <1>5, <3>1
  <2> QED
    BY <2>1, <2>2
<1>11. SendAnswersTruth'
  <2>1. \A u \in Senders, k \in 1 .. MaxSends :
          Answered(u, k, TRUE)' => Answered(u, k, TRUE) \/
            \E i \in 1 .. Len(accepted') :
              accepted'[i] = <<u, k>> /\ (capacity = 0 => i <= Len(received'))
    BY <1>0 DEF Answered
  <2>2. /\ received' \in Seq(Messages) /\ Len(accepted) <= Len(accepted')
        /\ Len(received) <= Len(received')
    BY <1>0, <1>1, <1>5, <1>6 DEF ChannelTypeOK
  <2> QED
    BY <1>0, <1>5, <2>1, <2>2, TruthKept
<1>12. CloseDrains'
  BY <1>0 DEF ChannelInv, CloseDrains
<1> QED
  BY <1>5, <1>6, <1>7, <1>8, <1>9, <1>10, <1>11, <1>12 DEF ChannelInv

(* A receive gets a value: from the queue or from the slot. *)
LEMMA ReceiveKeepsInv ==
  ASSUME ChannelInv, NEW r \in Receivers, RecvDequeues(r) \/ RecvTakes(r)
  PROVE  ChannelInv'
<1>0. /\ capacity' = capacity /\ closed' = closed /\ notEmpty' = notEmpty
      /\ calls' = calls /\ accepted' = accepted
      /\ pc[r] = "recv" /\ r \in Tasks /\ Returns(r, TRUE) /\ notFull' \subseteq notFull
  BY NotifyWakesBlocked DEF RecvDequeues, RecvTakes, Tasks
<1>1. /\ ChannelTypeOK /\ OneStore /\ Fifo /\ CloseDrains
      /\ received \in Seq(Messages) /\ queue \in Seq(Messages)
      /\ Len(accepted) \in Nat /\ Len(received) \in Nat
      /\ capacity \in Nat /\ Senders \cap Receivers = {}
  BY ChannelAssumption DEF ChannelInv, ChannelTypeOK
<1>2. /\ pc' \in [Tasks -> {"idle", "send", "handoff", "recv"}]
      /\ pc'[r] = "idle" /\ \A u \in Tasks \ {r} : pc'[u] = pc[u]
      /\ replies' \in [Tasks -> Seq(BOOLEAN)]
      /\ \A u \in Tasks \ {r} : replies'[u] = replies[u]
  <2>1. TRUE \in BOOLEAN
    OBVIOUS
  <2> QED
    BY <1>0, <1>1, <2>1, OneMoreReply
<1>3. /\ Contents # <<>> /\ Fifo' /\ OneStore'
      /\ received' \in Seq(Messages) /\ Len(received') = Len(received) + 1
      /\ queue' \in Seq(Messages) /\ Len(queue') <= capacity
      /\ ready' \in BOOLEAN /\ slot' \in Messages \cup {NoValue}
  <2>1. CASE RecvDequeues(r)
    <3>1. /\ ~ready /\ queue # <<>> /\ capacity > 0 /\ Len(queue) <= capacity
      <4>1. capacity > 0 /\ HasValue
        BY <2>1 DEF RecvDequeues
      <4> QED
        BY <1>1, <4>1 DEF HasValue, OneStore, ChannelTypeOK
    <3>2. /\ received' = Append(received, Head(queue)) /\ queue' = Tail(queue)
          /\ ready' = ready /\ slot' = slot
      BY <2>1 DEF RecvDequeues
    <3>3. /\ Head(queue) \in Messages /\ Tail(queue) \in Seq(Messages)
          /\ Len(Tail(queue)) = Len(queue) - 1 /\ Len(queue) \in Nat
      BY <1>1, <3>1, HeadTailProperties
    <3>4. received' \in Seq(Messages) /\ Len(received') = Len(received) + 1
      BY <1>1, <3>2, <3>3, AppendProperties
    <3>5. received \o queue = Append(received, Head(queue)) \o Tail(queue)
      BY <1>1, <3>1, HeadLeaves
    <3>6. Fifo' /\ Contents # <<>>
      BY <1>0, <1>1, <3>1, <3>2, <3>5 DEF Fifo, Contents
    <3>7. OneStore'
      BY <1>0, <1>1, <3>1, <3>2 DEF OneStore
    <3>8. Len(queue') <= capacity
      BY <1>1, <3>1, <3>2, <3>3
    <3> QED
      BY <1>1, <3>2, <3>3, <3>4, <3>6, <3>7, <3>8 DEF ChannelTypeOK
  <2>2. CASE RecvTakes(r)
    <3>1. /\ ready /\ queue = <<>> /\ capacity = 0 /\ slot \in Messages
          /\ Len(queue) <= capacity
      <4>1. capacity = 0 /\ HasValue
        BY <2>2 DEF RecvTakes
      <4> QED
        BY <1>1, <4>1 DEF HasValue, OneStore, ChannelTypeOK
    <3>2. /\ received' = Append(received, slot) /\ queue' = queue
          /\ ready' = FALSE /\ slot' = NoValue
      BY <2>2 DEF RecvTakes
    <3>3. received' \in Seq(Messages) /\ Len(received') = Len(received) + 1
      BY <1>1, <3>1, <3>2, AppendProperties
    <3>4. received \o <<slot>> = received' /\ received' \o <<>> = received'
      BY <1>1, <3>1, <3>2, <3>3, AppendIsConcat, ConcatEmptySeq
    <3>5. Fifo' /\ Contents # <<>>
      BY <1>0, <1>1, <3>1, <3>2, <3>4 DEF Fifo, Contents
    <3>6. OneStore'
      BY <1>0, <1>1, <3>1, <3>2 DEF OneStore
    <3> QED
      BY <1>1, <3>1, <3>2, <3>3, <3>5, <3>6
  <2> QED
    BY <2>1, <2>2
<1>4. ChannelTypeOK'
  BY <1>0, <1>1, <1>2, <1>3 DEF ChannelTypeOK
<1>5. CallsCounted'
  <2>1. pc[r] # "idle" /\ TRUE \in BOOLEAN
    BY <1>0
  <2> QED
    BY <1>0, <2>1, ReturnIsCounted
<1>6. /\ \A s \in Senders : pc'[s] = pc[s] /\ replies'[s] = replies[s]
      /\ \A s \in Senders : calls'[s] = calls[s]
  BY <1>0, <1>1, <1>2 DEF Tasks
<1>7. OffersAccepted' /\ AcceptedWereSent' /\ AcceptedOnce'
  BY <1>0, <1>6, AcceptedKept
<1>8. SendAnswersTruth'
  <2>1. \A s \in Senders, k \in 1 .. MaxSends : Answered(s, k, TRUE)' => Answered(s, k, TRUE)
    BY <1>6 DEF Answered
  <2>2. /\ accepted' \in Seq(Messages) /\ Len(accepted) <= Len(accepted')
        /\ Len(received) <= Len(received')
        /\ \A i \in 1 .. Len(accepted) : accepted'[i] = accepted[i]
    BY <1>0, <1>1, <1>3 DEF ChannelTypeOK
  <2> QED
    BY <1>0, <1>3, <2>1, <2>2, TruthKept
<1>9. CloseDrains'
  <2> SUFFICES ASSUME NEW q \in Receivers, NEW i \in 1 .. Len(replies'[q]), ~replies'[q][i]
               PROVE  FALSE
    BY DEF CloseDrains
  <2>1. \A u \in Receivers : \A j \in 1 .. Len(replies[u]) : replies[u][j]
    BY <1>1, <1>3 DEF CloseDrains
  <2>2. CASE q # r
    BY <1>2, <2>1, <2>2 DEF Tasks
  <2>3. CASE q = r
    <3>1. /\ Len(replies'[r]) = Len(replies[r]) + 1 /\ replies'[r][Len(replies[r]) + 1] = TRUE
          /\ \A j \in 1 .. Len(replies[r]) : replies'[r][j] = replies[r][j]
      BY <1>0, <1>1, OneMoreReply
    <3>2. Len(replies[r]) \in Nat
      BY <1>0, <1>1 DEF ChannelTypeOK
    <3>3. i \in 1 .. Len(replies[r]) \/ i = Len(replies[r]) + 1
      BY <2>3, <3>1, <3>2
    <3> QED
      BY <2>1, <2>3, <3>1, <3>3
  <2> QED
    BY <2>2, <2>3
<1> QED
  BY <1>3, <1>4, <1>5, <1>7, <1>8, <1>9 DEF ChannelInv

(* A hand-off that answers true: the value it offered has left the slot. *)
LEMMA HandedOffKeepsInv ==
  ASSUME ChannelInv, NEW s \in Senders, SendHandedOff(s)
  PROVE  ChannelInv'
<1>1. ~closed => \E i \in 1 .. Len(accepted) :
        accepted[i] = Message(s) /\ (capacity = 0 => i <= Len(received))
  <2> SUFFICES ASSUME ~closed
               PROVE  \E i \in 1 .. Len(accepted) :
                        accepted[i] = Message(s) /\ (capacity = 0 => i <= Len(received))
    OBVIOUS
  <2>1. capacity = 0 /\ \E i \in 1 .. Len(accepted) : accepted[i] = Message(s)
    BY DEF SendHandedOff, ChannelInv, OffersAccepted
  <2>2. ~ready /\ queue = <<>>
    BY <2>1 DEF SendHandedOff, HasRoom, ChannelInv, OneStore
  <2>3. accepted = received
    BY <2>2, ConcatEmptySeq DEF ChannelInv, ChannelTypeOK, Fifo, Contents
  <2> QED
    BY <2>1, <2>3 DEF ChannelInv, ChannelTypeOK
<1>2. /\ s \in Tasks /\ (~closed) \in BOOLEAN /\ s \notin Receivers
      /\ Returns(s, ~closed) /\ pc[s] # "idle"
      /\ UNCHANGED <<chanVars, notFull, notEmpty, calls, accepted, received>>
  BY ChannelAssumption DEF SendHandedOff, Tasks
<1> QED
  BY <1>1, <1>2, ReturnKeepsInv

(* Every step keeps the invariant. *)
LEMMA StepKeepsInv == ChannelInv /\ [Next]_vars => ChannelInv'
<1> SUFFICES ASSUME ChannelInv, [Next]_vars PROVE ChannelInv'
  OBVIOUS
<1>0. /\ notFull \subseteq Senders /\ notEmpty \subseteq Receivers /\ closed \in BOOLEAN
      /\ Senders \cap Receivers = {}
  BY ChannelAssumption DEF ChannelInv, ChannelTypeOK
<1>1. ASSUME NEW s \in Senders, Send(s) \/ SendStep(s) PROVE ChannelInv'
  <2>1. CASE Send(s)
    BY <2>1, BeginKeepsInv
  <2>2. CASE SendBlocks(s)
    BY <1>0, <2>2, WaitKeepsInv DEF SendBlocks, chanVars
  <2>3. CASE SendClosed(s)
    <3>1. /\ s \in Tasks /\ FALSE \in BOOLEAN /\ s \notin Receivers
          /\ Returns(s, FALSE) /\ pc[s] # "idle"
          /\ UNCHANGED <<chanVars, notFull, notEmpty, calls, accepted, received>>
      BY <1>0, <2>3 DEF SendClosed, Tasks
    <3> QED
      BY <3>1, ReturnKeepsInv
  <2>4. CASE SendQueues(s)
    BY <2>4, SendQueuesKeepsInv
  <2>5. CASE SendOffers(s)
    BY <2>5, SendOffersKeepsInv
  <2>6. CASE SendHandedOff(s)
    BY <2>6, HandedOffKeepsInv
  <2> QED
    BY <1>1, <2>1, <2>2, <2>3, <2>4, <2>5, <2>6 DEF SendStep
<1>2. ASSUME NEW r \in Receivers, Recv(r) \/ RecvStep(r) PROVE ChannelInv'
  <2>1. CASE Recv(r)
    BY <2>1, BeginKeepsInv
  <2>2. CASE RecvBlocks(r)
    BY <1>0, <2>2, WaitKeepsInv DEF RecvBlocks, chanVars
  <2>3. CASE RecvNothing(r)
    <3>1. /\ r \in Tasks /\ FALSE \in BOOLEAN /\ r \notin Senders
          /\ Returns(r, FALSE) /\ pc[r] # "idle" /\ closed
          /\ UNCHANGED <<chanVars, notFull, notEmpty, calls, accepted, received>>
      BY <1>0, <2>3 DEF RecvNothing, Tasks
    <3>2. Contents = <<>>
      <4>1. capacity \in Nat
        BY ChannelAssumption DEF ChannelInv, ChannelTypeOK
      <4> QED
        BY <2>3, <4>1 DEF RecvNothing, HasValue, Contents, ChannelInv, OneStore
    <3> QED
      BY <3>1, <3>2, ReturnKeepsInv
  <2>4. CASE RecvDequeues(r) \/ RecvTakes(r)
    BY <2>4, ReceiveKeepsInv
  <2> QED
    BY <1>2, <2>1, <2>2, <2>3, <2>4 DEF RecvStep
<1>3. CASE Close
  BY <1>0, <1>3, WaitKeepsInv DEF Close
<1>4. ASSUME NEW t \in Tasks, SpuriousWakeup(t) PROVE ChannelInv'
  BY <1>0, <1>4, WaitKeepsInv DEF SpuriousWakeup, chanVars
<1>5. CASE UNCHANGED vars
  BY <1>0, <1>5, WaitKeepsInv DEF vars, chanVars
<1> QED
  BY <1>1, <1>2, <1>3, <1>4, <1>5 DEF Next

-----------------------------------------------------------------------------
(* The theorems. *)

(* The invariant holds in every reachable state.                           *)
LEMMA InvAlways == Spec => []ChannelInv
<1>1. Init => ChannelInv
  BY InitEstablishesInv
<1>2. ChannelInv /\ [Next]_vars => ChannelInv'
  BY StepKeepsInv
<1> QED
  BY <1>1, <1>2, PTL DEF Spec

(* The state of a channel keeps its type, and its queue its bound. *)
THEOREM ChannelTypeTheorem == Spec => []ChannelTypeOK
<1>1. ChannelInv => ChannelTypeOK
  BY DEF ChannelInv
<1> QED
  BY <1>1, InvAlways, PTL

(* SendChannel and RecvChannel move values first in, first out: what went  *)
(* in is what came out followed by what is still in the channel.           *)
THEOREM FifoTheorem == Spec => []Fifo
<1>1. ChannelInv => Fifo
  BY DEF ChannelInv
<1> QED
  BY <1>1, InvAlways, PTL

(* ... and no call puts its value in a second time, however often its wait *)
(* is woken, so with Fifo every value comes out at most once.              *)
THEOREM OnceTheorem == Spec => []AcceptedOnce
<1>1. ChannelInv => AcceptedOnce
  BY DEF ChannelInv
<1> QED
  BY <1>1, InvAlways, PTL

(* A send that answered true has put its value in; on a rendezvous channel *)
(* a receiver has taken it, even when other senders wait on the same       *)
(* condition variable.                                                     *)
THEOREM SendAnswersTheorem == Spec => []SendAnswersTruth
<1>1. ChannelInv => SendAnswersTruth
  BY DEF ChannelInv
<1> QED
  BY <1>1, InvAlways, PTL

(* A receiver is told "closed" only once the channel is closed and every   *)
(* accepted value has been received.                                       *)
THEOREM CloseDrainsTheorem == Spec => []CloseDrains
<1>1. ChannelInv => CloseDrains
  BY DEF ChannelInv
<1> QED
  BY <1>1, InvAlways, PTL
=============================================================================
