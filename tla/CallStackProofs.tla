--------------------------- MODULE CallStackProofs ---------------------------
(***************************************************************************)
(* The call frames, the nested Run calls and what their C++ callers have   *)
(* saved fit together, for stacks of any size and callbacks nested to any  *)
(* depth.  The inductive invariant compares every frame with every saved   *)
(* record: a failed callback cuts the frames back to a record, and only    *)
(* the order between the two says that this cuts into nobody.              *)
(***************************************************************************)
EXTENDS CallStack, SequenceTheorems, TLAPS

Kinds == {"interpret", "task", "iterator", "withTx"}
Frames == [stackBase : Nat, transactionBase : Nat, handlerBase : Nat]
Runs == [kind : Kinds, entryFrameCount : Nat \ {0}, stackBase : 0 .. StackMax,
         transactionBase : Nat, handlerBase : Nat]

TypesFit ==
  /\ CallStackTypeOK
  /\ frames \in Seq(Frames)
  /\ calls \in Seq(Runs)

(* Any two frames, not only neighbours, lie in order. *)
Ordered ==
  \A i, j \in 1 .. Depth :
    i < j => /\ frames[i].stackBase < frames[j].stackBase
             /\ frames[i].transactionBase <= frames[j].transactionBase
             /\ frames[i].handlerBase <= frames[j].handlerBase

(* No frame begins above what is there. *)
Within ==
  mode # "over" =>
    \A i \in 1 .. Depth : /\ 1 <= frames[i].stackBase /\ frames[i].stackBase <= stack
                         /\ frames[i].transactionBase <= txns
                         /\ frames[i].handlerBase <= handlers

(* The outermost frame began with nothing active, also after a callback    *)
(* was cut short and the stacks are filled anew.                           *)
RootedAtZero ==
  /\ Depth >= 1 => frames[1].transactionBase = 0 /\ frames[1].handlerBase = 0
  /\ mode = "success" /\ Depth = 0 => txns = 0 /\ handlers = 0

(* Only the first Run is called by the host.  with_tx has three values of  *)
(* its own below the callback.                                             *)
CallsRooted(cs) ==
  /\ cs[1].entryFrameCount = 1
  /\ \A i \in 1 .. Len(cs) :
       /\ cs[i].kind \in {"interpret", "task"} <=> i = 1
       /\ cs[i].kind = "withTx" => cs[i].stackBase >= 3

(* Run goes on exactly while its entry frame is there. *)
InnermostRuns ==
  /\ mode = "run" => Innermost.entryFrameCount <= Depth
  /\ mode = "success" => Depth < Innermost.entryFrameCount

(* The values that the C++ caller of a Run keeps above the frame it was    *)
(* called from.                                                            *)
Kept(kind) == IF kind = "withTx" THEN 3 ELSE 0

(* A frame below a Run, and below all the Runs nested in it, lies within   *)
(* what the caller of that Run has saved.                                  *)
SavedAbove(cs) ==
  \A i \in 1 .. Len(cs), j \in 1 .. Depth :
    (\A k \in i .. Len(cs) : j < cs[k].entryFrameCount)
      => /\ frames[j].stackBase + Kept(cs[i].kind) <= cs[i].stackBase
         /\ frames[j].transactionBase <= cs[i].transactionBase
         /\ frames[j].handlerBase <= cs[i].handlerBase

(* A Run's entry frame began where its caller took the record. *)
EntryFrames(cs) ==
  \A i \in 1 .. Len(cs) :
    /\ cs[i].entryFrameCount <= Depth
    /\ \A k \in i + 1 .. Len(cs) : cs[i].entryFrameCount < cs[k].entryFrameCount
    => /\ frames[cs[i].entryFrameCount].transactionBase = cs[i].transactionBase
       /\ frames[cs[i].entryFrameCount].handlerBase = cs[i].handlerBase

(* Until a callback fails without a message, no Run has lost its frames,   *)
(* and they lie above what its caller has saved.                           *)
Alive == mode \in {"run", "success"}
Nested(cs) ==
  \A i, k \in 1 .. Len(cs) : i < k => cs[i].entryFrameCount < cs[k].entryFrameCount
FramesAbove(cs) ==
  \A i \in 1 .. Len(cs), j \in 1 .. Depth :
    cs[i].entryFrameCount <= j
      => /\ cs[i].stackBase < frames[j].stackBase
         /\ cs[i].transactionBase <= frames[j].transactionBase
         /\ cs[i].handlerBase <= frames[j].handlerBase
EntriesIntact ==
  Alive /\ ~cut =>
    Nested(calls) /\ Innermost.entryFrameCount <= Depth + 1 /\ FramesAbove(calls)

DbInWithTx ==
  Alive /\ dbTxn = "open" => \E i \in 1 .. Len(calls) : calls[i].kind = "withTx"

CallInv ==
  /\ TypesFit /\ Ordered /\ Within /\ RootedAtZero /\ CallsRooted(calls) /\ InnermostRuns
  /\ SavedAbove(calls) /\ EntryFrames(calls) /\ EntriesIntact /\ DbInWithTx
  /\ NothingLeftActive

-----------------------------------------------------------------------------
(* Steps are grouped by what they do to the frames and to the Runs.  What  *)
(* all of them need: the scalars keep their types.                         *)
ScalarsFit ==
  /\ stack \in 0 .. StackMax /\ txns \in 0 .. MaxTxns /\ handlers \in 0 .. MaxHandlers
  /\ error \in BOOLEAN /\ cut \in BOOLEAN
  /\ mode \in {"run", "success", "failure", "over"}
  /\ dbTxn \in {"auto", "open", "committed", "rolledBack"}
  /\ callback \in {"none", "running", "returned", "failed"}

(* What the types say, in the form that the steps below use. *)
FrameFacts ==
  \A i \in 1 .. Depth : /\ frames[i].stackBase \in Nat
                       /\ frames[i].transactionBase \in Nat
                       /\ frames[i].handlerBase \in Nat
RunFacts ==
  \A i \in 1 .. Len(calls) : /\ calls[i].kind \in Kinds
                            /\ calls[i].entryFrameCount \in Nat
                            /\ calls[i].entryFrameCount >= 1
                            /\ calls[i].stackBase \in Nat
                            /\ calls[i].stackBase <= StackMax
                            /\ calls[i].transactionBase \in Nat
                            /\ calls[i].handlerBase \in Nat
SizeFacts ==
  /\ Depth \in Nat /\ Depth <= FramesMax /\ Len(calls) \in Nat /\ Len(calls) >= 1
  /\ stack \in Nat /\ txns \in Nat /\ handlers \in Nat /\ StackMax \in Nat

(* A bound cut down to the smaller of two. *)
LEMMA LeastWithin ==
  ASSUME NEW x \in Nat, NEW y \in Nat, NEW z \in Nat, x \in 0 .. z
  PROVE  Least(x, y) \in 0 .. z
  BY DEF Least
LEMMA UnderLeast ==
  ASSUME NEW x \in Nat, NEW y \in Nat, NEW z \in Nat, x <= y, x + 3 <= z
  PROVE  x <= Least(y, z - 3) + 1 /\ x <= Least(y, z)
  BY DEF Least

(* The types of frames and runs, as the single facts the steps use.        *)
LEMMA Typed ==
  ASSUME CallInv
  PROVE  FrameFacts /\ RunFacts /\ SizeFacts
<1>1. frames \in Seq(Frames) /\ calls \in Seq(Runs) /\ calls # <<>> /\ Len(frames) <= FramesMax
  BY DEF CallInv, TypesFit, CallStackTypeOK
<1>2. Depth \in Nat /\ Depth <= FramesMax /\ Len(calls) \in Nat /\ Len(calls) >= 1
  BY <1>1 DEF Depth
<1>3. (\A i \in 1 .. Depth : frames[i] \in Frames) /\ (\A i \in 1 .. Len(calls) : calls[i] \in Runs)
  BY <1>1 DEF Depth
<1>4. \A f \in Frames : f.stackBase \in Nat /\ f.transactionBase \in Nat /\ f.handlerBase \in Nat
  BY DEF Frames
<1>5. \A r \in Runs : /\ r.kind \in Kinds
                      /\ r.entryFrameCount \in Nat /\ r.entryFrameCount >= 1
                      /\ r.stackBase \in Nat /\ r.stackBase <= StackMax
                      /\ r.transactionBase \in Nat /\ r.handlerBase \in Nat
  BY CallStackAssumption DEF Runs
<1>6. stack \in Nat /\ txns \in Nat /\ handlers \in Nat /\ StackMax \in Nat
  BY CallStackAssumption DEF CallInv, TypesFit, CallStackTypeOK
<1> QED
  BY <1>2, <1>3, <1>4, <1>5, <1>6 DEF FrameFacts, RunFacts, SizeFacts

(* While Run goes on there is a current frame, the highest of all. *)
TopFacts ==
  /\ Depth >= 1 /\ Innermost.entryFrameCount <= Depth
  /\ CurrentFrame.stackBase \in Nat /\ CurrentFrame.transactionBase \in Nat
  /\ CurrentFrame.handlerBase \in Nat
  /\ CurrentFrame.stackBase <= stack /\ CurrentFrame.transactionBase <= txns
  /\ CurrentFrame.handlerBase <= handlers
  /\ \A i \in 1 .. Depth : /\ frames[i].stackBase <= CurrentFrame.stackBase
                          /\ frames[i].transactionBase <= CurrentFrame.transactionBase
                          /\ frames[i].handlerBase <= CurrentFrame.handlerBase
                          /\ 1 <= frames[i].stackBase

(* While an instruction runs there is a topmost frame of its run.          *)
LEMMA RunningFrame ==
  ASSUME CallInv, Running
  PROVE  TopFacts
<1>1. FrameFacts /\ RunFacts /\ SizeFacts
  BY Typed
<1>2. Innermost.entryFrameCount <= Depth
  BY DEF CallInv, Running, InnermostRuns
<1>3. Innermost.entryFrameCount \in Nat /\ Innermost.entryFrameCount >= 1
  BY <1>1 DEF RunFacts, SizeFacts, Innermost
<1>4. Depth \in 1 .. Depth
  BY <1>1, <1>2, <1>3 DEF SizeFacts
<1>5. /\ CurrentFrame.stackBase \in Nat /\ CurrentFrame.transactionBase \in Nat
      /\ CurrentFrame.handlerBase \in Nat
  BY <1>1, <1>4 DEF FrameFacts, CurrentFrame
<1>6. /\ CurrentFrame.stackBase <= stack /\ CurrentFrame.transactionBase <= txns
      /\ CurrentFrame.handlerBase <= handlers
  BY <1>4 DEF CallInv, Within, Running, CurrentFrame
<1>7. ASSUME NEW i \in 1 .. Depth
      PROVE  /\ frames[i].stackBase <= CurrentFrame.stackBase
             /\ frames[i].transactionBase <= CurrentFrame.transactionBase
             /\ frames[i].handlerBase <= CurrentFrame.handlerBase
             /\ 1 <= frames[i].stackBase
  <2>1. 1 <= frames[i].stackBase
    BY DEF CallInv, Within, Running
  <2>2. CASE i = Depth
    BY <2>1, <2>2, <1>5 DEF CurrentFrame
  <2>3. CASE i # Depth
    <3>1. i < Depth
      BY <2>3, <1>4, <1>1 DEF SizeFacts
    <3>2. /\ frames[i].stackBase < CurrentFrame.stackBase
          /\ frames[i].transactionBase <= CurrentFrame.transactionBase
          /\ frames[i].handlerBase <= CurrentFrame.handlerBase
      BY <3>1, <1>4 DEF CallInv, Ordered, CurrentFrame
    <3> QED
      BY <3>2, <2>1, <1>1, <1>5 DEF FrameFacts
  <2> QED
    BY <2>2, <2>3
<1> QED
  BY <1>2, <1>4, <1>5, <1>6, <1>7, <1>1 DEF TopFacts, SizeFacts

(* The first n elements of a sequence. *)
LEMMA Prefix ==
  ASSUME NEW S, NEW s \in Seq(S), NEW n \in 0 .. Len(s)
  PROVE  /\ SubSeq(s, 1, n) \in Seq(S) /\ Len(SubSeq(s, 1, n)) = n
         /\ \A i \in 1 .. n : SubSeq(s, 1, n)[i] = s[i]
<1>1. n \in Int /\ n >= 0 /\ 1 \in Int /\ Len(s) \in Nat
  OBVIOUS
<1>2. \A i \in 1 .. n : s[i] \in S
  BY <1>1
<1>3. /\ SubSeq(s, 1, n) \in Seq(S)
      /\ Len(SubSeq(s, 1, n)) = IF 1 <= n THEN n - 1 + 1 ELSE 0
      /\ \A i \in 1 .. n - 1 + 1 : SubSeq(s, 1, n)[i] = s[1 + i - 1]
  BY <1>1, <1>2, SubSeqProperties
<1>4. n - 1 + 1 = n /\ \A i \in 1 .. n : 1 + i - 1 = i
  BY <1>1
<1>5. Len(SubSeq(s, 1, n)) = n
  BY <1>3, <1>1
<1>6. \A i \in 1 .. n : SubSeq(s, 1, n)[i] = s[i]
  BY <1>3, <1>4
<1> QED
  BY <1>3, <1>5, <1>6

(* A step that leaves frames and Runs as they are, and stays above the     *)
(* bases of the current frame.                                             *)
LEMMA LevelStep ==
  ASSUME CallInv, Running, frames' = frames, calls' = calls,
         mode' \in {"run", "failure"}, ScalarsFit', cut' = cut,
         CurrentFrame.stackBase <= stack', CurrentFrame.transactionBase <= txns',
         CurrentFrame.handlerBase <= handlers',
         mode' = "run" => dbTxn' = dbTxn
  PROVE  CallInv'
<1>1. Depth' = Depth /\ Innermost' = Innermost
  BY DEF Depth, Innermost
<1>2. /\ stack' \in Nat /\ txns' \in Nat /\ handlers' \in Nat
      /\ mode' # "over" /\ mode' # "success"
  BY CallStackAssumption DEF ScalarsFit
<1>3. TypesFit'
  BY <1>1 DEF CallInv, TypesFit, CallStackTypeOK, ScalarsFit
<1>4. Ordered' /\ CallsRooted(calls)' /\ SavedAbove(calls)' /\ EntryFrames(calls)'
  <2>1. Ordered' /\ CallsRooted(calls)'
    BY <1>1 DEF CallInv, Ordered, CallsRooted
  <2>2. SavedAbove(calls)'
    BY <1>1 DEF CallInv, SavedAbove, Kept
  <2>3. EntryFrames(calls)'
    BY <1>1 DEF CallInv, EntryFrames
  <2> QED
    BY <2>1, <2>2, <2>3
<1>5. Within'
  <2>1. \A i \in 1 .. Depth : 1 <= frames[i].stackBase
    BY DEF CallInv, Within, Running
  <2>2. \A i \in 1 .. Depth : /\ frames[i].stackBase <= stack'
                             /\ frames[i].transactionBase <= txns'
                             /\ frames[i].handlerBase <= handlers'
    BY <1>2, RunningFrame, Typed DEF TopFacts, FrameFacts
  <2> QED
    BY <1>1, <2>1, <2>2 DEF Within
<1>6. RootedAtZero' /\ NothingLeftActive'
  BY <1>1, <1>2 DEF CallInv, RootedAtZero, NothingLeftActive
<1>7. InnermostRuns'
  BY <1>1, <1>2 DEF CallInv, InnermostRuns, Running
<1>8. EntriesIntact' /\ DbInWithTx'
  BY <1>1, <1>2 DEF CallInv, EntriesIntact, Nested, FramesAbove, DbInWithTx, Running, Alive
<1> QED
  BY <1>3, <1>4, <1>5, <1>6, <1>7, <1>8 DEF CallInv

(* A call: one more frame above the current one, within the stack. *)
LEMMA FrameStep ==
  ASSUME CallInv, Running, CanPushFrame, NEW b \in Nat, PushFrame(b),
         CurrentFrame.stackBase < b, b <= stack', stack' \in 0 .. StackMax,
         txns' = txns, handlers' = handlers, error' = error, calls' = calls,
         mode' = mode, dbTxn' = dbTxn, callback' = callback, cut' = cut
  PROVE  CallInv'
<1> DEFINE d == Depth
<1>t. FrameFacts /\ RunFacts /\ SizeFacts /\ TopFacts /\ mode = "run"
  BY Typed, RunningFrame DEF Running
<1>u. /\ stack \in Nat /\ txns \in Nat /\ handlers \in Nat
      /\ CurrentFrame.stackBase \in Nat /\ CurrentFrame.transactionBase \in Nat
      /\ CurrentFrame.handlerBase \in Nat
      /\ CurrentFrame.stackBase <= stack /\ CurrentFrame.transactionBase <= txns
      /\ CurrentFrame.handlerBase <= handlers
  BY <1>t DEF TopFacts, SizeFacts
<1>0. /\ frames \in Seq(Frames) /\ Frame(b, txns, handlers) \in Frames
      /\ frames' = Append(frames, Frame(b, txns, handlers))
  BY <1>t DEF CallInv, TypesFit, Frames, Frame, PushFrame, SizeFacts
<1>1. /\ Depth' = d + 1 /\ Innermost' = Innermost /\ d \in Nat /\ d >= 1
      /\ \A i \in 1 .. d : frames'[i] = frames[i]
      /\ frames'[d + 1] = Frame(b, txns, handlers)
      /\ frames' \in Seq(Frames)
  BY <1>0, <1>t DEF Depth, Innermost, TopFacts
<1>2. /\ frames'[d + 1].stackBase = b /\ frames'[d + 1].transactionBase = txns
      /\ frames'[d + 1].handlerBase = handlers
  BY <1>1 DEF Frame
<1> HIDE DEF d
<1>3. TypesFit'
  <2>1. d < FramesMax /\ FramesMax \in Nat
    BY CallStackAssumption DEF CanPushFrame, d
  <2>2. Len(frames') <= FramesMax
    BY <2>1, <1>1 DEF Depth
  <2> QED
    BY <2>2, <1>1 DEF CallInv, TypesFit, CallStackTypeOK
<1>4. ASSUME NEW i \in 1 .. d
      PROVE  /\ frames[i].stackBase < b
             /\ frames[i].transactionBase <= txns
             /\ frames[i].handlerBase <= handlers
             /\ 1 <= frames[i].stackBase /\ frames[i].stackBase \in Nat
  <2>1. /\ frames[i].stackBase <= CurrentFrame.stackBase
        /\ frames[i].transactionBase <= CurrentFrame.transactionBase
        /\ frames[i].handlerBase <= CurrentFrame.handlerBase
        /\ 1 <= frames[i].stackBase
        /\ frames[i].stackBase \in Nat /\ frames[i].transactionBase \in Nat
        /\ frames[i].handlerBase \in Nat
    BY <1>t DEF TopFacts, FrameFacts, d
  <2> QED
    BY <2>1, <1>u
<1>5. Ordered'
  <2> SUFFICES ASSUME NEW i \in 1 .. d + 1, NEW j \in 1 .. d + 1, i < j
               PROVE  /\ frames'[i].stackBase < frames'[j].stackBase
                      /\ frames'[i].transactionBase <= frames'[j].transactionBase
                      /\ frames'[i].handlerBase <= frames'[j].handlerBase
    BY <1>1 DEF Ordered
  <2>1. i \in 1 .. d
    BY <1>1
  <2>2. CASE j = d + 1
    BY <2>1, <2>2, <1>1, <1>2, <1>4
  <2>3. CASE j \in 1 .. d
    BY <2>1, <2>3, <1>1 DEF CallInv, Ordered, d
  <2> QED
    BY <2>2, <2>3, <1>1
<1>6. Within'
  <2> SUFFICES ASSUME NEW i \in 1 .. d + 1
               PROVE  /\ 1 <= frames'[i].stackBase /\ frames'[i].stackBase <= stack'
                      /\ frames'[i].transactionBase <= txns
                      /\ frames'[i].handlerBase <= handlers
    BY <1>1 DEF Within
  <2>0. stack' \in Nat
    BY CallStackAssumption
  <2>1. CASE i = d + 1
    <3>1. 1 <= b
      BY <1>4, <1>1
    <3> QED
      BY <3>1, <2>1, <1>2, <1>t DEF SizeFacts
  <2>2. CASE i \in 1 .. d
    BY <2>0, <2>2, <1>1, <1>4
  <2> QED
    BY <2>1, <2>2, <1>1
<1>7. RootedAtZero' /\ NothingLeftActive'
  BY <1>1, <1>t DEF CallInv, RootedAtZero, NothingLeftActive, d
<1>8. CallsRooted(calls)' /\ InnermostRuns'
  <2>1. CallsRooted(calls)'
    BY DEF CallInv, CallsRooted
  <2>2. Innermost.entryFrameCount \in Nat
    BY <1>t DEF RunFacts, SizeFacts, Innermost
  <2> QED
    BY <2>1, <2>2, <1>1, <1>t DEF InnermostRuns, TopFacts, d
<1>9. SavedAbove(calls)'
  <2> SUFFICES ASSUME NEW i \in 1 .. Len(calls), NEW j \in 1 .. d + 1,
                      \A k \in i .. Len(calls) : j < calls[k].entryFrameCount
               PROVE  /\ frames'[j].stackBase + Kept(calls[i].kind) <= calls[i].stackBase
                      /\ frames'[j].transactionBase <= calls[i].transactionBase
                      /\ frames'[j].handlerBase <= calls[i].handlerBase
    BY <1>1 DEF SavedAbove, Kept
  <2>2. j < Innermost.entryFrameCount /\ Innermost.entryFrameCount \in Nat
    BY <1>t DEF SizeFacts, RunFacts, Innermost
  <2>3. j \in 1 .. d
    BY <2>2, <1>1, <1>t DEF TopFacts, d
  <2> QED
    BY <2>3, <1>1 DEF CallInv, SavedAbove, d
<1>n. /\ Innermost.entryFrameCount \in Nat /\ Innermost.entryFrameCount <= d /\ d \in Nat
      /\ Innermost' = Innermost /\ Depth' = d + 1
  <2>1. Innermost.entryFrameCount \in Nat
    BY <1>t DEF RunFacts, SizeFacts, Innermost
  <2>2. Innermost.entryFrameCount <= d /\ d \in Nat
    BY <1>t DEF TopFacts, SizeFacts, d
  <2> QED
    BY <2>1, <2>2, <1>1 DEF Innermost
<1>10. EntryFrames(calls)'
  <2> SUFFICES ASSUME NEW i \in 1 .. Len(calls), calls[i].entryFrameCount <= d + 1,
                      \A k \in i + 1 .. Len(calls) :
                        calls[i].entryFrameCount < calls[k].entryFrameCount
               PROVE  /\ frames'[calls[i].entryFrameCount].transactionBase = calls[i].transactionBase
                      /\ frames'[calls[i].entryFrameCount].handlerBase = calls[i].handlerBase
    BY <1>1 DEF EntryFrames
  <2>1. i = Len(calls) \/ Len(calls) \in i + 1 .. Len(calls)
    BY <1>t DEF SizeFacts
  <2>2. calls[i].entryFrameCount <= Innermost.entryFrameCount
    BY <2>1, <1>t DEF RunFacts, Innermost
  <2>3. calls[i].entryFrameCount \in 1 .. d
    <3>1. calls[i].entryFrameCount \in Nat /\ calls[i].entryFrameCount >= 1
      BY <1>t DEF RunFacts
    <3> QED
      BY ONLY <3>1, <2>2, <1>n
  <2>4. /\ frames[calls[i].entryFrameCount].transactionBase = calls[i].transactionBase
        /\ frames[calls[i].entryFrameCount].handlerBase = calls[i].handlerBase
    <3>1. calls[i].entryFrameCount <= Depth
      BY ONLY <2>3, <1>n DEF d
    <3> QED
      BY <3>1 DEF CallInv, EntryFrames
  <2> QED
    BY ONLY <2>3, <2>4, <1>1
<1>11. EntriesIntact'
  <2> SUFFICES ASSUME ~cut PROVE EntriesIntact'
    BY DEF EntriesIntact
  <2>1. /\ \A i, k \in 1 .. Len(calls) :
             i < k => calls[i].entryFrameCount < calls[k].entryFrameCount
        /\ \A i \in 1 .. Len(calls), j \in 1 .. d :
             calls[i].entryFrameCount <= j
               => /\ calls[i].stackBase < frames[j].stackBase
                  /\ calls[i].transactionBase <= frames[j].transactionBase
                  /\ calls[i].handlerBase <= frames[j].handlerBase
    BY <1>t DEF CallInv, EntriesIntact, Nested, FramesAbove, Alive, d
  <2>2. Innermost'.entryFrameCount <= Depth' + 1
    BY ONLY <1>n
  <2>3. ASSUME NEW i \in 1 .. Len(calls), NEW j \in 1 .. d + 1,
               calls[i].entryFrameCount <= j
        PROVE  /\ calls[i].stackBase < frames'[j].stackBase
               /\ calls[i].transactionBase <= frames'[j].transactionBase
               /\ calls[i].handlerBase <= frames'[j].handlerBase
    <3>1. CASE j \in 1 .. d
      BY <3>1, <2>1, <2>3, <1>1
    <3>2. CASE j = d + 1
      <4>1. i = Len(calls) \/ i < Len(calls)
        BY <1>t DEF SizeFacts
      <4>2. calls[i].entryFrameCount <= Innermost.entryFrameCount
        <5>1. CASE i = Len(calls)
          BY ONLY <5>1, <1>n DEF Innermost
        <5>2. CASE i < Len(calls)
          <6>1. Len(calls) \in 1 .. Len(calls)
            BY <1>t DEF SizeFacts
          <6>2. calls[i].entryFrameCount < Innermost.entryFrameCount
            BY ONLY <6>1, <5>2, <2>1, i \in 1 .. Len(calls) DEF Innermost
          <6>3. calls[i].entryFrameCount \in Nat
            BY <1>t DEF RunFacts
          <6> QED
            BY ONLY <6>2, <6>3, <1>n
        <5> QED
          BY <4>1, <5>1, <5>2
      <4>3. calls[i].entryFrameCount <= d
        <5>1. calls[i].entryFrameCount \in Nat
          BY <1>t DEF RunFacts
        <5> QED
          BY ONLY <5>1, <4>2, <1>n
      <4>4. /\ calls[i].stackBase < frames[d].stackBase
            /\ calls[i].transactionBase <= frames[d].transactionBase
            /\ calls[i].handlerBase <= frames[d].handlerBase
        <5>1. d \in 1 .. d
          BY <1>1
        <5> QED
          BY ONLY <5>1, <4>3, <2>1, i \in 1 .. Len(calls)
      <4>5. /\ frames[d].stackBase < b /\ frames[d].transactionBase <= txns
            /\ frames[d].handlerBase <= handlers
        BY <1>4, <1>1
      <4>6. d \in 1 .. Depth
        BY <1>1 DEF d
      <4>7. /\ frames[d].stackBase \in Nat /\ frames[d].transactionBase \in Nat
            /\ frames[d].handlerBase \in Nat
            /\ calls[i].stackBase \in Nat /\ calls[i].transactionBase \in Nat
            /\ calls[i].handlerBase \in Nat
        BY <4>6, <1>t DEF FrameFacts, RunFacts
      <4>8. calls[i].stackBase < b
        BY ONLY <4>4, <4>5, <4>7, b \in Nat
      <4>9. calls[i].transactionBase <= txns /\ calls[i].handlerBase <= handlers
        <5> DEFINE x == calls[i].transactionBase
                   y == frames[d].transactionBase
                   v == calls[i].handlerBase
                   w == frames[d].handlerBase
        <5>1. /\ x \in Nat /\ y \in Nat /\ x <= y /\ y <= txns /\ txns \in Nat
              /\ v \in Nat /\ w \in Nat /\ v <= w /\ w <= handlers /\ handlers \in Nat
          BY ONLY <4>4, <4>5, <4>7, <1>u, Zenon
        <5> HIDE DEF x, y, v, w
        <5>2. x <= txns /\ v <= handlers
          BY ONLY <5>1
        <5> QED
          BY <5>2 DEF x, v
      <4> QED
        BY <4>8, <4>9, <3>2, <1>2
    <3> QED
      BY <3>1, <3>2, <1>1
  <2> QED
    BY <2>1, <2>2, <2>3, <1>1 DEF EntriesIntact, Nested, FramesAbove
<1>12. DbInWithTx'
  BY DEF CallInv, DbInWithTx, Alive
<1> QED
  BY <1>3, <1>5, <1>6, <1>7, <1>8, <1>9, <1>10, <1>11, <1>12 DEF CallInv

(* A return: the current frame is gone, and the stacks are down to its     *)
(* bases.                                                                  *)
LEMMA ReturnStep ==
  ASSUME CallInv, Return
  PROVE  CallInv'
<1> DEFINE d == Depth
<1>t. FrameFacts /\ RunFacts /\ SizeFacts /\ TopFacts /\ mode = "run"
  BY Typed, RunningFrame DEF Return, Running
<1>a. /\ txns' = CurrentFrame.transactionBase /\ handlers' = CurrentFrame.handlerBase
      /\ stack' = CurrentFrame.stackBase /\ frames' = SubSeq(frames, 1, Depth - 1)
      /\ RunGoesOn(calls) /\ error' = error /\ calls' = calls /\ cut' = cut
      /\ dbTxn' = dbTxn /\ callback' = callback
  BY DEF Return, db
<1>1. /\ Depth' = d - 1 /\ Innermost' = Innermost /\ d \in Nat /\ d >= 1
      /\ \A i \in 1 .. d - 1 : frames'[i] = frames[i]
      /\ frames' \in Seq(Frames) /\ d <= FramesMax
  <2>1. frames \in Seq(Frames) /\ Depth \in Nat /\ Depth >= 1 /\ Depth <= FramesMax
    BY <1>t DEF CallInv, TypesFit, SizeFacts, TopFacts
  <2>2. Len(frames) \in Nat /\ Len(frames) >= 1 /\ frames' = SubSeq(frames, 1, Len(frames) - 1)
    BY <2>1, <1>a DEF Depth
  <2>3. /\ Len(frames') = Len(frames) - 1 /\ frames' \in Seq(Frames)
        /\ \A i \in 1 .. Len(frames) - 1 : frames'[i] = frames[i]
    <3>1. Len(frames) - 1 \in 0 .. Len(frames)
      BY <2>2
    <3> QED
      BY <3>1, <2>1, <2>2, Prefix
  <2>4. Innermost' = Innermost
    BY <1>a DEF Innermost
  <2> QED
    BY <2>1, <2>3, <2>4 DEF Depth
<1>2. /\ mode' = (IF d - 1 < Innermost.entryFrameCount THEN "success" ELSE "run")
      /\ Innermost.entryFrameCount \in Nat /\ Innermost.entryFrameCount >= 1
      /\ Innermost.entryFrameCount <= d
  BY <1>a, <1>1, <1>t DEF RunGoesOn, Depth, Innermost, RunFacts, SizeFacts, TopFacts
<1>u. /\ CurrentFrame.stackBase \in 0 .. StackMax
      /\ CurrentFrame.transactionBase \in 0 .. MaxTxns
      /\ CurrentFrame.handlerBase \in 0 .. MaxHandlers
  <2>1. /\ CurrentFrame.stackBase \in Nat /\ CurrentFrame.transactionBase \in Nat
        /\ CurrentFrame.handlerBase \in Nat
        /\ CurrentFrame.stackBase <= stack /\ CurrentFrame.transactionBase <= txns
        /\ CurrentFrame.handlerBase <= handlers
    BY <1>t DEF TopFacts
  <2>2. stack \in 0 .. StackMax /\ txns \in 0 .. MaxTxns /\ handlers \in 0 .. MaxHandlers
    BY DEF CallInv, TypesFit, CallStackTypeOK
  <2> QED
    BY <2>1, <2>2, CallStackAssumption
<1> HIDE DEF d
<1>3. TypesFit'
  <2>1. Len(frames') <= FramesMax
    BY <1>1, CallStackAssumption DEF Depth
  <2>2. mode' \in {"run", "success"}
    BY <1>2
  <2> QED
    BY <2>1, <2>2, <1>1, <1>a, <1>u DEF CallInv, TypesFit, CallStackTypeOK
<1>4. Ordered'
  BY <1>1 DEF CallInv, Ordered, d
<1>5. Within'
  BY <1>1, <1>a, <1>t DEF Within, TopFacts, d
<1>6. RootedAtZero'
  <2>1. frames[1].transactionBase = 0 /\ frames[1].handlerBase = 0
    BY <1>1 DEF CallInv, RootedAtZero, d
  <2>2. Depth' >= 1 => frames'[1].transactionBase = 0 /\ frames'[1].handlerBase = 0
    BY <2>1, <1>1
  <2>3. Depth' = 0 => txns' = 0 /\ handlers' = 0
    BY <2>1, <1>1, <1>a DEF CurrentFrame, d
  <2> QED
    BY <2>2, <2>3 DEF RootedAtZero
<1>7. CallsRooted(calls)' /\ InnermostRuns' /\ NothingLeftActive'
  BY <1>1, <1>2, <1>a DEF CallInv, CallsRooted, InnermostRuns, NothingLeftActive
<1>8. SavedAbove(calls)'
  BY <1>1, <1>a DEF CallInv, SavedAbove, d
<1>9. EntryFrames(calls)'
  <2> SUFFICES ASSUME NEW i \in 1 .. Len(calls), calls[i].entryFrameCount <= d - 1,
                      \A k \in i + 1 .. Len(calls) :
                        calls[i].entryFrameCount < calls[k].entryFrameCount
               PROVE  /\ frames'[calls[i].entryFrameCount].transactionBase = calls[i].transactionBase
                      /\ frames'[calls[i].entryFrameCount].handlerBase = calls[i].handlerBase
    BY <1>1, <1>a DEF EntryFrames
  <2>1. calls[i].entryFrameCount \in Nat /\ calls[i].entryFrameCount >= 1
    BY <1>t DEF RunFacts
  <2>2. calls[i].entryFrameCount \in 1 .. d - 1 /\ calls[i].entryFrameCount <= d
    BY <2>1, <1>1
  <2> QED
    BY <2>2, <1>1 DEF CallInv, EntryFrames, d
<1>10. EntriesIntact'
  <2> SUFFICES ASSUME ~cut PROVE Nested(calls)' /\ Innermost'.entryFrameCount <= Depth' + 1
                                   /\ FramesAbove(calls)'
    BY <1>a DEF EntriesIntact
  <2>1. Nested(calls) /\ FramesAbove(calls)
    BY <1>t DEF CallInv, EntriesIntact, Alive
  <2>2. Nested(calls)' /\ FramesAbove(calls)'
    BY <2>1, <1>1, <1>a DEF Nested, FramesAbove, d
  <2>3. Innermost'.entryFrameCount <= Depth' + 1
    BY <1>1, <1>2
  <2> QED
    BY <2>2, <2>3
<1>11. DbInWithTx'
  BY <1>t, <1>a DEF CallInv, DbInWithTx, Alive
<1> QED
  BY <1>3, <1>4, <1>5, <1>6, <1>7, <1>8, <1>9, <1>10, <1>11 DEF CallInv

-----------------------------------------------------------------------------
(* The Runs that are left when the innermost one returns to its caller. *)
LEMMA OuterRuns ==
  ASSUME CallInv, Innermost.kind \in {"iterator", "withTx"}
  PROVE  /\ Outer \in Seq(Runs) /\ Len(Outer) = Len(calls) - 1 /\ Len(Outer) >= 1
         /\ Len(Outer) \in Nat
         /\ \A i \in 1 .. Len(Outer) : Outer[i] = calls[i]
         /\ CallsRooted(Outer)
<1>1. calls \in Seq(Runs) /\ Len(calls) \in Nat /\ Len(calls) >= 1
  BY Typed DEF CallInv, TypesFit, SizeFacts
<1>2. Len(calls) # 1
  <2>1. 1 \in 1 .. Len(calls)
    BY <1>1
  <2>2. calls[1].kind \in {"interpret", "task"}
    BY <2>1 DEF CallInv, CallsRooted
  <2>3. calls[1].kind \notin {"iterator", "withTx"}
    BY <2>2
  <2> QED
    BY <2>3 DEF Innermost
<1>3. /\ Outer \in Seq(Runs) /\ Len(Outer) = Len(calls) - 1 /\ Len(Outer) >= 1
      /\ \A i \in 1 .. Len(Outer) : Outer[i] = calls[i]
  <2>0. \A n \in Nat : n >= 1 /\ n # 1 => n - 1 \in 0 .. n /\ n - 1 >= 1
    OBVIOUS
  <2>1. Len(calls) - 1 \in 0 .. Len(calls) /\ Len(calls) - 1 >= 1
    BY <2>0, <1>1, <1>2
  <2>2. Outer = SubSeq(calls, 1, Len(calls) - 1)
    BY DEF Outer
  <2>3. /\ Outer \in Seq(Runs) /\ Len(Outer) = Len(calls) - 1
        /\ \A i \in 1 .. Len(calls) - 1 : Outer[i] = calls[i]
    BY <2>1, <2>2, <1>1, Prefix
  <2> QED
    BY <2>1, <2>3
<1>4. CallsRooted(Outer)
  BY <1>1, <1>3 DEF CallInv, CallsRooted
<1> QED
  BY <1>1, <1>3, <1>4

(* When the innermost Run has succeeded its frames are gone, and what the  *)
(* invariant says of the others holds without it.                          *)
LEMMA OuterSettled ==
  ASSUME CallInv, mode = "success", Innermost.kind \in {"iterator", "withTx"}
  PROVE  /\ SavedAbove(Outer) /\ EntryFrames(Outer)
         /\ ~cut => /\ Nested(Outer) /\ FramesAbove(Outer)
                    /\ \A i \in 1 .. Len(Outer) : Outer[i].entryFrameCount <= Depth
<1> DEFINE n == Len(calls)
<1>1. /\ n \in Nat /\ n >= 2 /\ Len(Outer) = n - 1
      /\ \A i \in 1 .. n - 1 : Outer[i] = calls[i]
  BY OuterRuns, Typed DEF SizeFacts
<1>2. /\ Depth \in Nat /\ Depth < calls[n].entryFrameCount
      /\ calls[n].entryFrameCount \in Nat
  BY Typed DEF CallInv, InnermostRuns, Innermost, RunFacts, SizeFacts
<1> HIDE DEF n
<1>3. SavedAbove(Outer)
  <2> SUFFICES ASSUME NEW i \in 1 .. n - 1, NEW j \in 1 .. Depth,
                      \A k \in i .. n - 1 : j < calls[k].entryFrameCount
               PROVE  /\ frames[j].stackBase + Kept(calls[i].kind) <= calls[i].stackBase
                      /\ frames[j].transactionBase <= calls[i].transactionBase
                      /\ frames[j].handlerBase <= calls[i].handlerBase
    BY <1>1 DEF SavedAbove
  <2>1. j < calls[n].entryFrameCount
    BY <1>2
  <2>2. \A k \in i .. n : j < calls[k].entryFrameCount
    BY <2>1, <1>1
  <2>3. i \in 1 .. n
    BY <1>1
  <2> QED
    BY <2>2, <2>3 DEF CallInv, SavedAbove, n
<1>4. EntryFrames(Outer)
  <2> SUFFICES ASSUME NEW i \in 1 .. n - 1, calls[i].entryFrameCount <= Depth,
                      \A k \in i + 1 .. n - 1 :
                        calls[i].entryFrameCount < calls[k].entryFrameCount
               PROVE  /\ frames[calls[i].entryFrameCount].transactionBase = calls[i].transactionBase
                      /\ frames[calls[i].entryFrameCount].handlerBase = calls[i].handlerBase
    BY <1>1 DEF EntryFrames
  <2>1. calls[i].entryFrameCount \in Nat /\ i \in 1 .. n
    BY <1>1, Typed DEF RunFacts, n
  <2>2. calls[i].entryFrameCount < calls[n].entryFrameCount
    BY <2>1, <1>2
  <2>3. \A k \in i + 1 .. n : calls[i].entryFrameCount < calls[k].entryFrameCount
    BY <2>2, <1>1
  <2> QED
    BY <2>1, <2>3 DEF CallInv, EntryFrames, n
<1>5. ASSUME ~cut
      PROVE  /\ Nested(Outer) /\ FramesAbove(Outer)
             /\ \A i \in 1 .. Len(Outer) : Outer[i].entryFrameCount <= Depth
  <2>1. Nested(calls) /\ calls[n].entryFrameCount <= Depth + 1 /\ FramesAbove(calls)
    BY <1>5 DEF CallInv, EntriesIntact, Alive, Innermost, n
  <2>0. \A i \in 1 .. n - 1 : i \in 1 .. n
    BY <1>1
  <2>2. Nested(Outer) /\ FramesAbove(Outer)
    <3>1. Nested(Outer)
      BY <2>0, <2>1, <1>1 DEF Nested, n
    <3>2. FramesAbove(Outer)
      BY ONLY <2>0, <2>1, <1>1 DEF FramesAbove, n
    <3> QED
      BY <3>1, <3>2
  <2>3. ASSUME NEW i \in 1 .. n - 1 PROVE calls[i].entryFrameCount <= Depth
    <3>1. i \in 1 .. n /\ n \in 1 .. n /\ i < n
      BY <1>1
    <3>2. calls[i].entryFrameCount < calls[n].entryFrameCount
      BY <3>1, <2>1 DEF Nested, n
    <3>3. calls[i].entryFrameCount \in Nat
      BY <3>1, Typed DEF RunFacts, n
    <3> QED
      BY <3>2, <3>3, <2>1, <1>2
  <2> QED
    BY <2>2, <2>3, <1>1
<1> QED
  BY <1>3, <1>4, <1>5

(* The innermost Run has succeeded and returns to its caller, which leaves *)
(* the frames alone and then goes on or fails.                             *)
LEMMA PopStep ==
  ASSUME CallInv, mode = "success", Innermost.kind \in {"iterator", "withTx"},
         frames' = frames, txns' = txns, handlers' = handlers, cut' = cut,
         calls' = Outer, ScalarsFit',
         \A i \in 1 .. Depth : frames[i].stackBase <= stack',
         mode' = "failure" \/ RunGoesOn(Outer),
         dbTxn' = "open" => dbTxn = "open" /\ Innermost.kind = "iterator"
  PROVE  CallInv'
<1> DEFINE m == Len(Outer)
<1>1. /\ Outer \in Seq(Runs) /\ m = Len(calls) - 1 /\ m >= 1 /\ m \in Nat
      /\ \A i \in 1 .. m : Outer[i] = calls[i]
      /\ CallsRooted(Outer) /\ Depth \in Nat
  BY OuterRuns, Typed DEF SizeFacts
<1>2. /\ SavedAbove(Outer) /\ EntryFrames(Outer)
      /\ ~cut => /\ Nested(Outer) /\ FramesAbove(Outer)
                 /\ \A i \in 1 .. m : Outer[i].entryFrameCount <= Depth
  BY OuterSettled
<1>3. /\ Depth' = Depth /\ Innermost' = Outer[m] /\ Len(frames') = Depth
      /\ Outer[m].entryFrameCount \in Nat
  <2>1. m \in 1 .. Len(calls) /\ Outer[m] = calls[m]
    BY <1>1
  <2>2. Outer[m].entryFrameCount \in Nat
    BY <2>1, Typed DEF RunFacts
  <2> QED
    BY <2>2 DEF Depth, Innermost
<1>4. \/ mode' = "failure"
      \/ mode' = IF Depth < Outer[m].entryFrameCount THEN "success" ELSE "run"
  BY <1>3 DEF RunGoesOn
<1> HIDE DEF m
<1>5. TypesFit' /\ CallsRooted(calls)'
  <2>1. Outer # <<>>
    BY <1>1 DEF m
  <2>2. TypesFit'
    BY <2>1, <1>1 DEF CallInv, TypesFit, CallStackTypeOK, ScalarsFit
  <2> QED
    BY <2>2, <1>1 DEF CallsRooted
<1>6. Ordered'
  BY <1>3 DEF CallInv, Ordered
<1>7. Within'
  BY <1>3 DEF CallInv, Within
<1>8. RootedAtZero' /\ NothingLeftActive'
  BY <1>3, <1>4 DEF CallInv, RootedAtZero, NothingLeftActive
<1>9. InnermostRuns'
  BY <1>1, <1>3, <1>4 DEF InnermostRuns
<1>10. SavedAbove(calls)'
  BY <1>2, <1>3 DEF SavedAbove
<1>11. EntryFrames(calls)'
  BY <1>2, <1>3 DEF EntryFrames
<1>12. EntriesIntact'
  <2> SUFFICES ASSUME ~cut
               PROVE  Nested(Outer) /\ Outer[m].entryFrameCount <= Depth + 1 /\ FramesAbove(Outer)
    BY <1>3 DEF EntriesIntact, Nested, FramesAbove
  <2>1. Outer[m].entryFrameCount <= Depth
    BY <1>1, <1>2
  <2> QED
    BY <2>1, <1>1, <1>2, <1>3
<1>13. DbInWithTx'
  <2> SUFFICES ASSUME dbTxn' = "open"
               PROVE  \E i \in 1 .. m : Outer[i].kind = "withTx"
    BY DEF DbInWithTx, m
  <2>1. PICK i \in 1 .. Len(calls) : calls[i].kind = "withTx"
    BY DEF CallInv, DbInWithTx, Alive
  <2>2. calls[Len(calls)].kind = "iterator"
    BY DEF Innermost
  <2>3. i \in 1 .. m
    BY <2>1, <2>2, <1>1
  <2> QED
    BY <2>1, <2>3, <1>1
<1> QED
  BY <1>5, <1>6, <1>7, <1>8, <1>9, <1>10, <1>11, <1>12, <1>13 DEF CallInv

(* A failed Run cuts frames and stacks back to what its caller saved. *)
LEMMA CutBackStep ==
  ASSUME CallInv, IteratorFails
  PROVE  CallInv'
<1> DEFINE m == Len(Outer)
           e == Innermost.entryFrameCount
           d == Least(Depth, e - 1)
<1>a. /\ mode = "failure" /\ Innermost.kind = "iterator" /\ calls' = Outer
      /\ frames' = SubSeq(frames, 1, d)
      /\ stack' = Least(stack, Innermost.stackBase)
      /\ txns' = Least(txns, Innermost.transactionBase)
      /\ handlers' = Least(handlers, Innermost.handlerBase)
      /\ error' = TRUE /\ mode' = "failure"
      /\ dbTxn' = dbTxn /\ callback' = callback /\ cut' = cut
  BY DEF IteratorFails, Fails, db, CallInv, TypesFit, CallStackTypeOK
<1>t. FrameFacts /\ RunFacts /\ SizeFacts
  BY Typed
<1>1. /\ Outer \in Seq(Runs) /\ m = Len(calls) - 1 /\ m >= 1 /\ m \in Nat
      /\ \A i \in 1 .. m : Outer[i] = calls[i]
      /\ CallsRooted(Outer)
  BY <1>a, OuterRuns
<1>2. /\ e \in Nat /\ e >= 1 /\ Innermost = calls[m + 1] /\ m + 1 \in 1 .. Len(calls)
      /\ Innermost.stackBase \in Nat /\ Innermost.transactionBase \in Nat
      /\ Innermost.handlerBase \in Nat /\ Innermost.kind = "iterator"
  <2>1. Innermost = calls[m + 1] /\ m + 1 \in 1 .. Len(calls)
    BY <1>1, <1>t DEF Innermost, SizeFacts
  <2> QED
    BY <2>1, <1>a, <1>t DEF RunFacts
<1>3. d \in Nat /\ d <= Depth /\ d < e /\ d \in 0 .. Len(frames)
  <2>1. Depth \in Nat /\ Depth = Len(frames)
    BY <1>t DEF SizeFacts, Depth
  <2> QED
    BY <2>1, <1>2 DEF Least
<1> HIDE DEF m, e, d
<1>4. /\ Depth' = d /\ frames' \in Seq(Frames) /\ \A i \in 1 .. d : frames'[i] = frames[i]
  <2>1. frames \in Seq(Frames)
    BY DEF CallInv, TypesFit
  <2> QED
    BY <2>1, <1>a, <1>3, Prefix DEF Depth
<1>5. stack' \in 0 .. StackMax /\ txns' \in 0 .. MaxTxns /\ handlers' \in 0 .. MaxHandlers
  <2>1. stack \in 0 .. StackMax /\ txns \in 0 .. MaxTxns /\ handlers \in 0 .. MaxHandlers
    BY DEF CallInv, TypesFit, CallStackTypeOK
  <2>2. /\ stack \in Nat /\ txns \in Nat /\ handlers \in Nat
        /\ StackMax \in Nat /\ MaxTxns \in Nat /\ MaxHandlers \in Nat
    BY <1>t, CallStackAssumption DEF SizeFacts
  <2> QED
    BY ONLY <2>1, <2>2, <1>a, <1>2, LeastWithin, Zenon
<1>6. TypesFit' /\ CallsRooted(calls)'
  <2>1. Outer # <<>>
    BY <1>1 DEF m
  <2>2. Len(frames') <= FramesMax
    BY <1>3, <1>4, <1>t, CallStackAssumption DEF Depth, SizeFacts
  <2>3. TypesFit'
    BY <2>1, <2>2, <1>1, <1>a, <1>4, <1>5 DEF CallInv, TypesFit, CallStackTypeOK
  <2> QED
    BY <2>3, <1>1, <1>a DEF CallsRooted
<1>7. Ordered'
  <2> SUFFICES ASSUME NEW i \in 1 .. d, NEW j \in 1 .. d, i < j
               PROVE  /\ frames'[i].stackBase < frames'[j].stackBase
                      /\ frames'[i].transactionBase <= frames'[j].transactionBase
                      /\ frames'[i].handlerBase <= frames'[j].handlerBase
    BY <1>4 DEF Ordered
  <2>1. i \in 1 .. Depth /\ j \in 1 .. Depth
    BY <1>3, <1>t DEF SizeFacts
  <2> QED
    BY <2>1, <1>4 DEF CallInv, Ordered
<1>8. Within'
  <2> SUFFICES ASSUME NEW i \in 1 .. d
               PROVE  /\ 1 <= frames[i].stackBase /\ frames[i].stackBase <= stack'
                      /\ frames[i].transactionBase <= txns'
                      /\ frames[i].handlerBase <= handlers'
    BY <1>4 DEF Within
  <2>1. i \in 1 .. Depth
    BY <1>3, <1>t DEF SizeFacts
  <2>2. /\ 1 <= frames[i].stackBase /\ frames[i].stackBase <= stack
        /\ frames[i].transactionBase <= txns /\ frames[i].handlerBase <= handlers
    BY <2>1, <1>a DEF CallInv, Within
  <2>3. \A k \in m + 1 .. Len(calls) : i < calls[k].entryFrameCount
    BY <1>1, <1>2, <1>3 DEF e
  <2>4. /\ frames[i].stackBase + Kept(Innermost.kind) <= Innermost.stackBase
        /\ frames[i].transactionBase <= Innermost.transactionBase
        /\ frames[i].handlerBase <= Innermost.handlerBase
    BY <2>1, <2>3, <1>2 DEF CallInv, SavedAbove
  <2>5. Kept(Innermost.kind) = 0 /\ frames[i].stackBase \in Nat
    BY <2>1, <1>2, <1>t DEF Kept, FrameFacts
  <2>6. frames[i].stackBase <= Innermost.stackBase
    BY <2>4, <2>5
  <2> QED
    BY <2>2, <2>4, <2>6, <1>a DEF Least
<1>9. RootedAtZero' /\ NothingLeftActive' /\ InnermostRuns' /\ EntriesIntact' /\ DbInWithTx'
  <2>1. mode' # "run" /\ mode' # "success" /\ mode' # "over"
    BY <1>a
  <2>2. d >= 1 => frames'[1].transactionBase = 0 /\ frames'[1].handlerBase = 0
    BY <1>3, <1>4, <1>t DEF CallInv, RootedAtZero, SizeFacts
  <2> QED
    BY <2>1, <2>2, <1>4 DEF RootedAtZero, NothingLeftActive, InnermostRuns, EntriesIntact,
                            DbInWithTx, Alive
<1>10. SavedAbove(calls)'
  <2> SUFFICES ASSUME NEW i \in 1 .. m, NEW j \in 1 .. d,
                      \A k \in i .. m : j < calls[k].entryFrameCount
               PROVE  /\ frames[j].stackBase + Kept(calls[i].kind) <= calls[i].stackBase
                      /\ frames[j].transactionBase <= calls[i].transactionBase
                      /\ frames[j].handlerBase <= calls[i].handlerBase
    <3>1. SUFFICES ASSUME NEW i \in 1 .. m, NEW j \in 1 .. d,
                          \A k \in i .. m : j < Outer[k].entryFrameCount
                   PROVE  /\ frames'[j].stackBase + Kept(Outer[i].kind) <= Outer[i].stackBase
                          /\ frames'[j].transactionBase <= Outer[i].transactionBase
                          /\ frames'[j].handlerBase <= Outer[i].handlerBase
      BY <1>4, <1>a DEF SavedAbove, m
    <3>2. \A k \in i .. m : k \in 1 .. m
      BY <1>1
    <3>3. \A k \in i .. m : j < calls[k].entryFrameCount
      BY <3>1, <3>2, <1>1
    <3>4. Outer[i] = calls[i] /\ frames'[j] = frames[j]
      BY <1>1, <1>4
    <3> QED
      BY <3>3, <3>4
  <2>1. \A k \in i .. Len(calls) : j < calls[k].entryFrameCount
    <3>1. \A k \in i .. Len(calls) : k \in i .. m \/ k = m + 1
      BY <1>1, <1>2
    <3>2. j < calls[m + 1].entryFrameCount
      BY <1>2, <1>3 DEF e
    <3> QED
      BY <3>1, <3>2
  <2>2. i \in 1 .. Len(calls) /\ j \in 1 .. Depth
    BY <1>1, <1>3, <1>t DEF SizeFacts
  <2> QED
    BY <2>1, <2>2 DEF CallInv, SavedAbove
<1>11. EntryFrames(calls)'
  <2> SUFFICES ASSUME NEW i \in 1 .. m, calls[i].entryFrameCount <= d,
                      \A k \in i + 1 .. m :
                        calls[i].entryFrameCount < calls[k].entryFrameCount
               PROVE  /\ frames'[calls[i].entryFrameCount].transactionBase = calls[i].transactionBase
                      /\ frames'[calls[i].entryFrameCount].handlerBase = calls[i].handlerBase
    <3>1. SUFFICES ASSUME NEW i \in 1 .. m, Outer[i].entryFrameCount <= d,
                          \A k \in i + 1 .. m :
                            Outer[i].entryFrameCount < Outer[k].entryFrameCount
                   PROVE  /\ frames'[Outer[i].entryFrameCount].transactionBase
                               = Outer[i].transactionBase
                          /\ frames'[Outer[i].entryFrameCount].handlerBase = Outer[i].handlerBase
      BY <1>4, <1>a DEF EntryFrames, m
    <3>2. \A k \in i + 1 .. m : k \in 1 .. m
      BY <1>1
    <3>3. Outer[i] = calls[i]
      BY <1>1
    <3>4. \A k \in i + 1 .. m : calls[i].entryFrameCount < calls[k].entryFrameCount
      BY <3>1, <3>2, <3>3, <1>1
    <3> QED
      BY <3>1, <3>3, <3>4
  <2>1. /\ i \in 1 .. Len(calls) /\ calls[i].entryFrameCount \in Nat
        /\ calls[i].entryFrameCount >= 1
    BY <1>1, <1>t DEF RunFacts
  <2>2. /\ calls[i].entryFrameCount < e /\ calls[i].entryFrameCount <= Depth
        /\ calls[i].entryFrameCount \in 1 .. d
    BY <2>1, <1>2, <1>3, <1>t DEF SizeFacts
  <2>3. \A k \in i + 1 .. Len(calls) : calls[i].entryFrameCount < calls[k].entryFrameCount
    BY <2>2, <1>1, <1>2 DEF e
  <2> QED
    BY <2>1, <2>2, <2>3, <1>4 DEF CallInv, EntryFrames
<1> QED
  BY <1>6, <1>7, <1>8, <1>9, <1>10, <1>11 DEF CallInv

(* A callback: a frame, and a Run with the record of where it began, on    *)
(* top of Runs cs that have settled.                                       *)
LEMMA CallBackStep ==
  ASSUME CallInv, mode # "over", NEW kind \in {"iterator", "withTx"}, NEW base \in Nat, NEW cs,
         cs \in Seq(Runs), Len(cs) >= 1, CallsRooted(cs), SavedAbove(cs), EntryFrames(cs),
         ~cut => /\ Nested(cs) /\ FramesAbove(cs)
                 /\ \A i \in 1 .. Len(cs) : cs[i].entryFrameCount <= Depth,
         CallBack(kind, base, cs), txns' = txns, handlers' = handlers, cut' = cut, ScalarsFit',
         kind = "withTx" => base >= 3,
         \A i \in 1 .. Depth : frames[i].stackBase + Kept(kind) <= base,
         Depth = 0 => txns = 0 /\ handlers = 0,
         dbTxn' = "open" => kind = "withTx" \/ \E i \in 1 .. Len(cs) : cs[i].kind = "withTx"
  PROVE  CallInv'
<1> DEFINE d == Depth
           m == Len(cs)
           r == Saved(kind, base)
           f == Frame(base + 1, txns, handlers)
<1>t. FrameFacts /\ SizeFacts
  BY Typed
<1>0. /\ frames \in Seq(Frames) /\ f \in Frames /\ frames' = Append(frames, f)
      /\ calls' = Append(cs, r) /\ base + 2 <= StackMax /\ d < FramesMax
      /\ stack' = base + 2 /\ mode' = "run"
  <2>1. frames \in Seq(Frames)
    BY DEF CallInv, TypesFit
  <2>2. f \in Frames
    BY <1>t DEF Frames, Frame, SizeFacts
  <2> QED
    BY <2>1, <2>2 DEF PushFrame, CallBack, CanCallBack, CanPushFrame
<1>r. /\ r.kind = kind /\ r.entryFrameCount = d + 1 /\ r.stackBase = base
      /\ r.transactionBase = txns /\ r.handlerBase = handlers
      /\ f.stackBase = base + 1 /\ f.transactionBase = txns /\ f.handlerBase = handlers
  BY DEF Saved, Frame
<1>s. d \in Nat /\ m \in Nat /\ m >= 1 /\ txns \in Nat /\ handlers \in Nat /\ d = Len(frames)
  BY <1>t DEF SizeFacts, Depth
<1>c. r \in Runs
  <2>1. d + 1 \in Nat \ {0} /\ base \in 0 .. StackMax /\ kind \in Kinds
    BY <1>0, <1>s, CallStackAssumption DEF Kinds
  <2> QED
    BY <2>1, <1>s DEF Saved, Runs
<1> HIDE DEF r, f
<1>1. /\ Depth' = d + 1 /\ frames' \in Seq(Frames) /\ frames'[d + 1] = f
      /\ \A i \in 1 .. d : frames'[i] = frames[i]
  BY <1>0, <1>s DEF Depth
<1>2. /\ Len(calls') = m + 1 /\ calls' \in Seq(Runs) /\ calls'[m + 1] = r
      /\ \A i \in 1 .. m : calls'[i] = cs[i]
      /\ Innermost' = r /\ calls' # <<>>
  <2>1. /\ Len(calls') = m + 1 /\ calls' \in Seq(Runs) /\ calls'[m + 1] = r
        /\ \A i \in 1 .. m : calls'[i] = cs[i]
    BY <1>0, <1>s, <1>c
  <2> QED
    BY <2>1, <1>s DEF Innermost
<1>k. ASSUME NEW i \in 1 .. m
      PROVE  /\ cs[i].entryFrameCount \in Nat /\ cs[i].entryFrameCount >= 1
             /\ cs[i].stackBase \in Nat /\ cs[i].transactionBase \in Nat
             /\ cs[i].handlerBase \in Nat
  <2>1. cs[i] \in Runs
    OBVIOUS
  <2>2. \A x \in Runs : /\ x.entryFrameCount \in Nat /\ x.entryFrameCount >= 1
                        /\ x.stackBase \in Nat /\ x.transactionBase \in Nat
                        /\ x.handlerBase \in Nat
    BY CallStackAssumption DEF Runs
  <2> QED
    BY <2>1, <2>2
<1>f. ASSUME NEW i \in 1 .. d
      PROVE  /\ frames[i].stackBase \in Nat /\ frames[i].transactionBase \in Nat
             /\ frames[i].handlerBase \in Nat
             /\ 1 <= frames[i].stackBase /\ frames[i].stackBase <= base
             /\ frames[i].stackBase + Kept(kind) <= base
             /\ frames[i].transactionBase <= txns /\ frames[i].handlerBase <= handlers
  <2>1. /\ frames[i].stackBase \in Nat /\ frames[i].transactionBase \in Nat
        /\ frames[i].handlerBase \in Nat
    BY <1>t DEF FrameFacts
  <2>2. /\ 1 <= frames[i].stackBase /\ frames[i].transactionBase <= txns
        /\ frames[i].handlerBase <= handlers
    BY DEF CallInv, Within
  <2>3. frames[i].stackBase + Kept(kind) <= base /\ Kept(kind) \in Nat
    BY DEF Kept
  <2> QED
    BY <2>1, <2>2, <2>3
<1> HIDE DEF d, m
<1>3. TypesFit'
  <2>1. Len(frames') <= FramesMax
    BY <1>0, <1>1, <1>s, CallStackAssumption DEF Depth
  <2> QED
    BY <2>1, <1>1, <1>2 DEF TypesFit, CallStackTypeOK, ScalarsFit
<1>4. Ordered'
  <2> SUFFICES ASSUME NEW i \in 1 .. d + 1, NEW j \in 1 .. d + 1, i < j
               PROVE  /\ frames'[i].stackBase < frames'[j].stackBase
                      /\ frames'[i].transactionBase <= frames'[j].transactionBase
                      /\ frames'[i].handlerBase <= frames'[j].handlerBase
    BY <1>1 DEF Ordered
  <2>1. i \in 1 .. d
    BY <1>s
  <2>2. CASE j = d + 1
    BY <2>1, <2>2, <1>1, <1>r, <1>f
  <2>3. CASE j \in 1 .. d
    BY <2>1, <2>3, <1>1 DEF CallInv, Ordered, d
  <2> QED
    BY <2>2, <2>3, <1>s
<1>5. Within'
  <2> SUFFICES ASSUME NEW i \in 1 .. d + 1
               PROVE  /\ 1 <= frames'[i].stackBase /\ frames'[i].stackBase <= base + 2
                      /\ frames'[i].transactionBase <= txns
                      /\ frames'[i].handlerBase <= handlers
    BY <1>0, <1>1 DEF Within
  <2>1. CASE i = d + 1
    BY <2>1, <1>1, <1>r, <1>s
  <2>2. CASE i \in 1 .. d
    BY <2>2, <1>1, <1>f
  <2> QED
    BY <2>1, <2>2, <1>s
<1>6. RootedAtZero' /\ NothingLeftActive' /\ InnermostRuns'
  <2>1. frames'[1].transactionBase = 0 /\ frames'[1].handlerBase = 0
    <3>1. CASE d = 0
      BY <3>1, <1>1, <1>r DEF d
    <3>2. CASE d >= 1
      BY <3>2, <1>1, <1>s DEF CallInv, RootedAtZero, d
    <3> QED
      BY <3>1, <3>2, <1>s
  <2> QED
    BY <2>1, <1>0, <1>1, <1>2, <1>r, <1>s DEF RootedAtZero, NothingLeftActive, InnermostRuns
<1>7. CallsRooted(calls)'
  <2>1. 1 \in 1 .. m
    BY <1>s
  <2>2. calls'[1].entryFrameCount = 1
    BY <2>1, <1>2 DEF CallsRooted
  <2>3. ASSUME NEW i \in 1 .. m + 1
        PROVE  /\ calls'[i].kind \in {"interpret", "task"} <=> i = 1
               /\ calls'[i].kind = "withTx" => calls'[i].stackBase >= 3
    <3>1. CASE i \in 1 .. m
      BY <3>1, <1>2 DEF CallsRooted, m
    <3>2. CASE i = m + 1
      BY <3>2, <1>2, <1>r, <1>s
    <3> QED
      BY <3>1, <3>2, <1>s
  <2> QED
    BY <2>2, <2>3, <1>2 DEF CallsRooted
<1>8. SavedAbove(calls)'
  <2>0. SUFFICES ASSUME NEW i \in 1 .. m + 1, NEW j \in 1 .. d + 1,
                        \A k \in i .. m + 1 : j < calls'[k].entryFrameCount
                 PROVE  /\ frames'[j].stackBase + Kept(calls'[i].kind) <= calls'[i].stackBase
                        /\ frames'[j].transactionBase <= calls'[i].transactionBase
                        /\ frames'[j].handlerBase <= calls'[i].handlerBase
    BY <1>1, <1>2 DEF SavedAbove
  <2>1. m + 1 \in i .. m + 1
    BY <1>s
  <2>2. j \in 1 .. d
    BY <2>0, <2>1, <1>2, <1>r, <1>s
  <2>3. CASE i = m + 1
    BY <2>2, <2>3, <1>1, <1>2, <1>r, <1>f
  <2>4. CASE i \in 1 .. m
    <3>1. \A k \in i .. m : k \in i .. m + 1 /\ k \in 1 .. m
      BY <2>4, <1>s
    <3>2. \A k \in i .. m : j < cs[k].entryFrameCount
      BY <2>0, <3>1, <1>2
    <3>3. /\ frames[j].stackBase + Kept(cs[i].kind) <= cs[i].stackBase
          /\ frames[j].transactionBase <= cs[i].transactionBase
          /\ frames[j].handlerBase <= cs[i].handlerBase
      BY <3>2, <2>2, <2>4 DEF SavedAbove, d, m
    <3>4. frames'[j] = frames[j] /\ calls'[i] = cs[i]
      BY <2>2, <2>4, <1>1, <1>2
    <3> QED
      BY <3>3, <3>4
  <2> QED
    BY <2>3, <2>4, <1>s
<1>9. EntryFrames(calls)'
  <2>0. SUFFICES ASSUME NEW i \in 1 .. m + 1, calls'[i].entryFrameCount <= d + 1,
                        \A k \in i + 1 .. m + 1 :
                          calls'[i].entryFrameCount < calls'[k].entryFrameCount
                 PROVE  /\ frames'[calls'[i].entryFrameCount].transactionBase
                             = calls'[i].transactionBase
                        /\ frames'[calls'[i].entryFrameCount].handlerBase = calls'[i].handlerBase
    BY <1>1, <1>2 DEF EntryFrames
  <2>1. CASE i = m + 1
    BY <2>1, <1>1, <1>2, <1>r
  <2>2. CASE i \in 1 .. m
    <3>1. /\ m + 1 \in i + 1 .. m + 1
          /\ \A k \in i + 1 .. m : k \in i + 1 .. m + 1 /\ k \in 1 .. m
      BY <2>2, <1>s
    <3>2. cs[i].entryFrameCount < d + 1 /\ calls'[i] = cs[i]
      BY <3>1, <2>0, <2>2, <1>2, <1>r
    <3>3. cs[i].entryFrameCount \in 1 .. d /\ cs[i].entryFrameCount <= d
      BY <3>2, <2>2, <1>k, <1>s
    <3>4. \A k \in i + 1 .. m : cs[i].entryFrameCount < cs[k].entryFrameCount
      BY <3>1, <3>2, <2>0, <1>2
    <3>5. /\ frames[cs[i].entryFrameCount].transactionBase = cs[i].transactionBase
          /\ frames[cs[i].entryFrameCount].handlerBase = cs[i].handlerBase
      BY <3>3, <3>4, <2>2 DEF EntryFrames, d, m
    <3> QED
      BY <3>2, <3>3, <3>5, <1>1
  <2> QED
    BY <2>1, <2>2, <1>s
<1>10. EntriesIntact'
  <2>0. SUFFICES ASSUME ~cut
                 PROVE  Nested(calls)' /\ Innermost'.entryFrameCount <= Depth' + 1
                          /\ FramesAbove(calls)'
    BY DEF EntriesIntact
  <2>1. Nested(cs) /\ FramesAbove(cs) /\ \A i \in 1 .. m : cs[i].entryFrameCount <= d
    BY <2>0 DEF d, m
  <2>2. ASSUME NEW i \in 1 .. m + 1, NEW k \in 1 .. m + 1, i < k
        PROVE  calls'[i].entryFrameCount < calls'[k].entryFrameCount
    <3>1. i \in 1 .. m /\ calls'[i] = cs[i]
      BY <2>2, <1>s, <1>2
    <3>2. CASE k \in 1 .. m
      BY <3>1, <3>2, <2>1, <2>2, <1>2 DEF Nested, m
    <3>3. CASE k = m + 1
      BY <3>1, <3>3, <2>1, <1>2, <1>r, <1>k, <1>s
    <3> QED
      BY <3>2, <3>3, <1>s
  <2>3. ASSUME NEW i \in 1 .. m + 1, NEW j \in 1 .. d + 1, calls'[i].entryFrameCount <= j
        PROVE  /\ calls'[i].stackBase < frames'[j].stackBase
               /\ calls'[i].transactionBase <= frames'[j].transactionBase
               /\ calls'[i].handlerBase <= frames'[j].handlerBase
    <3>1. CASE i = m + 1
      <4>1. calls'[i] = r
        BY ONLY <3>1, <1>2
      <4>2. j = d + 1
        BY ONLY <4>1, <2>3, <1>r, <1>s, j \in 1 .. d + 1
      <4>3. frames'[j] = f
        BY ONLY <4>2, <1>1
      <4> QED
        BY ONLY <4>1, <4>3, <1>r, <1>s, base \in Nat
    <3>2. CASE i \in 1 .. m /\ j \in 1 .. d
      BY <3>2, <2>1, <2>3, <1>1, <1>2 DEF FramesAbove, d, m
    <3>3. CASE i \in 1 .. m /\ j = d + 1
      <4>0. cs[i].entryFrameCount <= d /\ cs[i].entryFrameCount \in Nat /\ cs[i].entryFrameCount >= 1
        BY <3>3, <2>1, <1>k
      <4>1. d \in 1 .. d
        BY <4>0, <1>s
      <4>2. /\ cs[i].stackBase < frames[d].stackBase
            /\ cs[i].transactionBase <= frames[d].transactionBase
            /\ cs[i].handlerBase <= frames[d].handlerBase
        BY <4>0, <4>1, <3>3, <2>1 DEF FramesAbove, d, m
      <4>3. /\ frames[d].stackBase \in Nat /\ frames[d].transactionBase \in Nat
            /\ frames[d].handlerBase \in Nat /\ frames[d].stackBase <= base
            /\ frames[d].transactionBase <= txns /\ frames[d].handlerBase <= handlers
        BY <4>1, <1>f
      <4>4. /\ cs[i].stackBase \in Nat /\ cs[i].transactionBase \in Nat
            /\ cs[i].handlerBase \in Nat
        BY <3>3, <1>k
      <4>5. cs[i].stackBase < base + 1
        BY ONLY <4>2, <4>3, <4>4, base \in Nat
      <4>6. cs[i].transactionBase <= txns /\ cs[i].handlerBase <= handlers
        <5> DEFINE x == cs[i].transactionBase
                   y == frames[d].transactionBase
                   v == cs[i].handlerBase
                   w == frames[d].handlerBase
        <5>1. /\ x \in Nat /\ y \in Nat /\ x <= y /\ y <= txns /\ txns \in Nat
              /\ v \in Nat /\ w \in Nat /\ v <= w /\ w <= handlers /\ handlers \in Nat
          BY ONLY <4>2, <4>3, <4>4, <1>s, Zenon
        <5> HIDE DEF x, y, v, w
        <5>2. x <= txns /\ v <= handlers
          BY ONLY <5>1
        <5> QED
          BY <5>2 DEF x, v
      <4> QED
        BY <4>5, <4>6, <3>3, <1>1, <1>2, <1>r
    <3> QED
      BY <3>1, <3>2, <3>3, <1>s
  <2>4. Innermost'.entryFrameCount <= Depth' + 1
    BY <1>1, <1>2, <1>r, <1>s
  <2> QED
    BY <2>2, <2>3, <2>4, <1>1, <1>2 DEF Nested, FramesAbove
<1>11. DbInWithTx'
  <2> SUFFICES ASSUME dbTxn' = "open"
               PROVE  \E i \in 1 .. m + 1 : calls'[i].kind = "withTx"
    BY <1>2 DEF DbInWithTx
  <2>1. CASE kind = "withTx"
    BY <2>1, <1>2, <1>r, <1>s
  <2>2. CASE \E i \in 1 .. m : cs[i].kind = "withTx"
    BY <2>2, <1>2, <1>s
  <2> QED
    BY <2>1, <2>2 DEF m
<1> QED
  BY <1>3, <1>4, <1>5, <1>6, <1>7, <1>8, <1>9, <1>10, <1>11 DEF CallInv

(* InvokeCallable has wiped the machine: with no frames left there is      *)
(* nothing that could be out of order.                                     *)
LEMMA WipeStep ==
  ASSUME CallInv, Wipe, ScalarsFit', mode' \in {"failure", "success"},
         calls' \in Seq(Runs), calls' # <<>>, CallsRooted(calls'),
         mode' = "success" => cut' /\ \E i \in 1 .. Len(calls') : calls'[i].kind = "withTx"
  PROVE  CallInv'
<1>1. /\ frames' = <<>> /\ stack' = 0 /\ txns' = 0 /\ handlers' = 0
      /\ Len(frames') = 0 /\ Depth' = 0
  BY DEF Wipe, Depth
<1>2. Len(calls') \in 1 .. Len(calls') /\ calls'[Len(calls')] \in Runs
  BY SMT
<1>3. Innermost'.entryFrameCount \in Nat /\ Innermost'.entryFrameCount >= 1
  <2>1. \A x \in Runs : x.entryFrameCount \in Nat /\ x.entryFrameCount >= 1
    BY DEF Runs
  <2> QED
    BY <1>2, <2>1 DEF Innermost
<1>4. TypesFit'
  <2>1. <<>> \in Seq(Frames) /\ 0 <= FramesMax
    BY CallStackAssumption
  <2> QED
    BY <2>1, <1>1 DEF TypesFit, CallStackTypeOK, ScalarsFit
<1>5. Ordered' /\ Within' /\ RootedAtZero' /\ SavedAbove(calls)'
  BY <1>1 DEF Ordered, Within, RootedAtZero, SavedAbove
<1>6. CallsRooted(calls)' /\ InnermostRuns' /\ NothingLeftActive'
  BY <1>1, <1>3 DEF CallsRooted, InnermostRuns, NothingLeftActive
<1>7. EntryFrames(calls)'
  <2>1. \A x \in Runs : ~(x.entryFrameCount <= 0)
    BY DEF Runs
  <2>2. \A i \in 1 .. Len(calls') : calls'[i] \in Runs
    OBVIOUS
  <2> QED
    BY <2>1, <2>2, <1>1 DEF EntryFrames
<1>8. EntriesIntact' /\ DbInWithTx'
  BY DEF EntriesIntact, DbInWithTx, Alive
<1> QED
  BY <1>4, <1>5, <1>6, <1>7, <1>8 DEF CallInv

(* The program is over. *)
LEMMA EndsStep ==
  ASSUME CallInv, Ends
  PROVE  CallInv'
<1>t. RunFacts /\ SizeFacts
  BY Typed
<1>1. /\ calls' = calls /\ mode' = "over" /\ error' = error /\ cut' = cut
      /\ dbTxn' = dbTxn /\ callback' = callback
      /\ frames' = frames \/ frames' = <<>>
      /\ stack' = stack \/ stack' = 0
  BY DEF Ends, db
<1>2. txns' = 0 /\ handlers' = 0
  <2>1. CASE mode = "failure"
    BY <2>1 DEF Ends
  <2>2. CASE mode = "success"
    <3>1. Depth < Innermost.entryFrameCount /\ Innermost.entryFrameCount = 1 /\ Depth \in Nat
      BY <2>2, <1>t DEF CallInv, InnermostRuns, CallsRooted, Innermost, Ends, SizeFacts
    <3>2. Depth = 0
      BY <3>1
    <3> QED
      BY <2>2, <3>2 DEF CallInv, RootedAtZero, Ends
  <2> QED
    BY <2>1, <2>2 DEF Ends
<1>3. \/ Depth' = Depth /\ frames' = frames
      \/ Depth' = 0 /\ frames' = <<>>
  BY <1>1 DEF Depth
<1>4. TypesFit'
  <2>0. frames \in Seq(Frames) /\ Len(frames) <= FramesMax /\ 0 <= FramesMax
    BY CallStackAssumption DEF CallInv, TypesFit, CallStackTypeOK
  <2>1. frames' \in Seq(Frames) /\ Len(frames') <= FramesMax
    <3>1. CASE frames' = frames
      BY <2>0, <3>1
    <3>2. CASE frames' = <<>>
      BY <2>0, <3>2
    <3> QED
      BY <3>1, <3>2, <1>1
  <2>2. stack' \in 0 .. StackMax /\ 0 \in 0 .. MaxTxns /\ 0 \in 0 .. MaxHandlers
    BY <1>1, CallStackAssumption DEF CallInv, TypesFit, CallStackTypeOK
  <2> QED
    BY <2>1, <2>2, <1>1, <1>2 DEF CallInv, TypesFit, CallStackTypeOK
<1>5. Ordered' /\ RootedAtZero'
  BY <1>1, <1>3 DEF CallInv, Ordered, RootedAtZero
<1>6. SavedAbove(calls)'
  BY <1>1, <1>3 DEF CallInv, SavedAbove
<1>7. EntryFrames(calls)'
  <2>1. CASE Depth' = 0
    <3>1. \A i \in 1 .. Len(calls) : ~(calls[i].entryFrameCount <= 0)
      BY <1>t DEF RunFacts
    <3> QED
      BY <3>1, <2>1, <1>1 DEF EntryFrames
  <2>2. CASE Depth' = Depth /\ frames' = frames
    BY <2>2, <1>1 DEF CallInv, EntryFrames
  <2> QED
    BY <2>1, <2>2, <1>3
<1>8. Within' /\ CallsRooted(calls)' /\ InnermostRuns' /\ EntriesIntact' /\ DbInWithTx'
      /\ NothingLeftActive'
  BY <1>1, <1>2 DEF CallInv, Within, CallsRooted, InnermostRuns, EntriesIntact, DbInWithTx,
                    Alive, NothingLeftActive
<1> QED
  BY <1>4, <1>5, <1>6, <1>7, <1>8 DEF CallInv

-----------------------------------------------------------------------------
(* The initial state: one frame and one Run, called by the host. *)
LEMMA InitEstablishesInv == Init => CallInv
<1> SUFFICES ASSUME Init PROVE CallInv
  OBVIOUS
<1>1. PICK k \in {"interpret", "task"} :
        calls = <<[kind |-> k, entryFrameCount |-> 1, stackBase |-> 0,
                   transactionBase |-> 0, handlerBase |-> 0]>>
  BY DEF Init
<1>2. /\ stack = 1 /\ txns = 0 /\ handlers = 0 /\ error = FALSE /\ mode = "run"
      /\ dbTxn = "auto" /\ callback = "none" /\ cut = FALSE /\ frames = <<Frame(1, 0, 0)>>
  BY DEF Init
<1>3. /\ Len(calls) = 1 /\ calls[1].kind = k /\ calls[1].entryFrameCount = 1
      /\ calls[1].stackBase = 0 /\ calls[1].transactionBase = 0 /\ calls[1].handlerBase = 0
      /\ Innermost = calls[1] /\ calls # <<>>
  BY <1>1 DEF Innermost
<1>4. /\ Depth = 1 /\ Len(frames) = 1 /\ frames[1].stackBase = 1
      /\ frames[1].transactionBase = 0 /\ frames[1].handlerBase = 0
  BY <1>2 DEF Depth, Frame
<1>5. TypesFit
  <2>1. frames \in Seq(Frames)
    BY <1>2 DEF Frame, Frames
  <2>2. calls \in Seq(Runs)
    <3>1. 0 \in 0 .. StackMax /\ k \in Kinds
      BY CallStackAssumption DEF Kinds
    <3> QED
      BY <3>1, <1>1 DEF Runs
  <2>3. 1 <= FramesMax /\ 1 \in 0 .. StackMax /\ 0 \in 0 .. MaxTxns /\ 0 \in 0 .. MaxHandlers
    BY CallStackAssumption
  <2> QED
    BY <2>1, <2>2, <2>3, <1>2, <1>3, <1>4 DEF TypesFit, CallStackTypeOK
<1>6. Ordered /\ Within /\ RootedAtZero /\ InnermostRuns /\ NothingLeftActive /\ DbInWithTx
  BY <1>2, <1>3, <1>4 DEF Ordered, Within, RootedAtZero, InnermostRuns, NothingLeftActive,
                          DbInWithTx
<1>7. CallsRooted(calls) /\ SavedAbove(calls) /\ EntryFrames(calls)
  BY <1>3, <1>4 DEF CallsRooted, SavedAbove, EntryFrames
<1>8. EntriesIntact
  BY <1>3, <1>4 DEF EntriesIntact, Nested, FramesAbove
<1> QED
  BY <1>5, <1>6, <1>7, <1>8 DEF CallInv

(* Every instruction keeps the invariant. *)
LEMMA InstructionKeepsInv ==
  ASSUME CallInv, Instruction
  PROVE  CallInv'
<1>r. mode = "run" /\ Running
  BY DEF Instruction, Running, Push, Pop, InstructionFails, BeginTransaction, BeginContended,
         EndTransaction, PushHandler, PopHandler, Call, EffectInvoke, Return, IterNext,
         IterNextThrows, WithTx, WithTxThrows, WithTxRefused
<1>t. SizeFacts /\ TopFacts
  BY <1>r, Typed, RunningFrame
<1>b. /\ stack \in 0 .. StackMax /\ txns \in 0 .. MaxTxns /\ handlers \in 0 .. MaxHandlers
      /\ error \in BOOLEAN /\ cut \in BOOLEAN
      /\ dbTxn \in {"auto", "open", "committed", "rolledBack"}
      /\ callback \in {"none", "running", "returned", "failed"}
      /\ StackMax \in Nat /\ MaxTxns \in Nat /\ MaxHandlers \in Nat
  BY CallStackAssumption DEF CallInv, TypesFit, CallStackTypeOK
<1>u. /\ CurrentFrame.stackBase \in Nat /\ CurrentFrame.transactionBase \in Nat
      /\ CurrentFrame.handlerBase \in Nat
      /\ CurrentFrame.stackBase <= stack /\ CurrentFrame.transactionBase <= txns
      /\ CurrentFrame.handlerBase <= handlers
  BY <1>t DEF TopFacts
<1>1. CASE Push
  <2>1. /\ stack < StackMax /\ stack' = stack + 1 /\ frames' = frames /\ txns' = txns
        /\ handlers' = handlers /\ error' = error /\ calls' = calls /\ mode' = mode
        /\ dbTxn' = dbTxn /\ callback' = callback /\ cut' = cut
    BY <1>1 DEF Push, db
  <2>2. stack' \in 0 .. StackMax /\ CurrentFrame.stackBase <= stack'
    BY <2>1, <1>b, <1>u
  <2>3. ScalarsFit'
    BY <2>1, <2>2, <1>b, <1>r DEF ScalarsFit
  <2> QED
    BY <2>1, <2>2, <2>3, <1>u, <1>r, LevelStep
<1>2. CASE Pop
  <2>1. /\ Has(1) /\ stack' = stack - 1 /\ frames' = frames /\ txns' = txns
        /\ handlers' = handlers /\ error' = error /\ calls' = calls /\ mode' = mode
        /\ dbTxn' = dbTxn /\ callback' = callback /\ cut' = cut
    BY <1>2 DEF Pop, db
  <2>2. stack' \in 0 .. StackMax /\ CurrentFrame.stackBase <= stack'
    BY <2>1, <1>b, <1>u DEF Has
  <2>3. ScalarsFit'
    BY <2>1, <2>2, <1>b, <1>r DEF ScalarsFit
  <2> QED
    BY <2>1, <2>2, <2>3, <1>u, <1>r, LevelStep
<1>3. CASE InstructionFails
  <2>1. /\ stack' = stack /\ frames' = frames /\ txns' = txns
        /\ handlers' = handlers /\ error' \in BOOLEAN /\ calls' = calls /\ mode' = "failure"
        /\ dbTxn' = dbTxn /\ callback' = callback /\ cut' = cut
    BY <1>3, <1>b DEF InstructionFails, Fails, machine, db
  <2>3. ScalarsFit'
    BY <2>1, <1>b DEF ScalarsFit
  <2> QED
    BY <2>1, <2>3, <1>u, <1>r, LevelStep
<1>4. CASE BeginTransaction
  <2>1. /\ Has(1) /\ txns < MaxTxns /\ stack' = stack - 1 /\ frames' = frames
        /\ txns' = txns + 1
        /\ handlers' = handlers /\ error' = error /\ calls' = calls /\ mode' = mode
        /\ dbTxn' = dbTxn /\ callback' = callback /\ cut' = cut
    BY <1>4 DEF BeginTransaction, db
  <2>2. stack' \in 0 .. StackMax /\ CurrentFrame.stackBase <= stack'
    BY <2>1, <1>b, <1>u DEF Has
  <2>3. txns' \in 0 .. MaxTxns /\ CurrentFrame.transactionBase <= txns'
    BY <2>1, <1>b, <1>u
  <2>4. ScalarsFit'
    BY <2>1, <2>2, <2>3, <1>b, <1>r DEF ScalarsFit
  <2> QED
    BY <2>1, <2>2, <2>3, <2>4, <1>u, <1>r, LevelStep
<1>5. CASE BeginContended
  <2>1. /\ Has(1) /\ stack' = stack - 1 /\ frames' = frames /\ txns' = txns
        /\ handlers' = handlers /\ error' \in BOOLEAN /\ calls' = calls /\ mode' = "failure"
        /\ dbTxn' = dbTxn /\ callback' = callback /\ cut' = cut
    BY <1>5, <1>b DEF BeginContended, Fails, db
  <2>2. stack' \in 0 .. StackMax /\ CurrentFrame.stackBase <= stack'
    BY <2>1, <1>b, <1>u DEF Has
  <2>3. ScalarsFit'
    BY <2>1, <2>2, <1>b DEF ScalarsFit
  <2> QED
    BY <2>1, <2>2, <2>3, <1>u, <1>r, LevelStep
<1>6. CASE EndTransaction
  <2>1. /\ txns > CurrentFrame.transactionBase /\ stack' = stack /\ frames' = frames
        /\ txns' = txns - 1
        /\ handlers' = handlers /\ error' = error /\ calls' = calls /\ mode' = mode
        /\ dbTxn' = dbTxn /\ callback' = callback /\ cut' = cut
    BY <1>6 DEF EndTransaction, db
  <2>2. txns' \in 0 .. MaxTxns /\ CurrentFrame.transactionBase <= txns'
    BY <2>1, <1>b, <1>u
  <2>3. ScalarsFit'
    BY <2>1, <2>2, <1>b, <1>r DEF ScalarsFit
  <2> QED
    BY <2>1, <2>2, <2>3, <1>u, <1>r, LevelStep
<1>7. CASE PushHandler
  <2>1. /\ Has(1) /\ handlers < MaxHandlers /\ stack' = stack - 1 /\ frames' = frames
        /\ handlers' = handlers + 1
        /\ txns' = txns /\ error' = error /\ calls' = calls /\ mode' = mode
        /\ dbTxn' = dbTxn /\ callback' = callback /\ cut' = cut
    BY <1>7 DEF PushHandler, db
  <2>2. stack' \in 0 .. StackMax /\ CurrentFrame.stackBase <= stack'
    BY <2>1, <1>b, <1>u DEF Has
  <2>3. handlers' \in 0 .. MaxHandlers /\ CurrentFrame.handlerBase <= handlers'
    BY <2>1, <1>b, <1>u
  <2>4. ScalarsFit'
    BY <2>1, <2>2, <2>3, <1>b, <1>r DEF ScalarsFit
  <2> QED
    BY <2>1, <2>2, <2>3, <2>4, <1>u, <1>r, LevelStep
<1>8. CASE PopHandler
  <2>1. /\ handlers > CurrentFrame.handlerBase /\ stack' = stack /\ frames' = frames
        /\ handlers' = handlers - 1
        /\ txns' = txns /\ error' = error /\ calls' = calls /\ mode' = mode
        /\ dbTxn' = dbTxn /\ callback' = callback /\ cut' = cut
    BY <1>8 DEF PopHandler, db
  <2>2. handlers' \in 0 .. MaxHandlers /\ CurrentFrame.handlerBase <= handlers'
    BY <2>1, <1>b, <1>u
  <2>3. ScalarsFit'
    BY <2>1, <2>2, <1>b, <1>r DEF ScalarsFit
  <2> QED
    BY <2>1, <2>2, <2>3, <1>u, <1>r, LevelStep
<1>9. ASSUME NEW n \in 0 .. MaxArgs, Call(n) PROVE CallInv'
  <2>0. n \in Nat
    BY CallStackAssumption
  <2>1. /\ Has(n + 1) /\ CanPushFrame /\ PushFrame(stack - n) /\ stack' = stack /\ txns' = txns
        /\ handlers' = handlers /\ error' = error /\ calls' = calls /\ mode' = mode
        /\ dbTxn' = dbTxn /\ callback' = callback /\ cut' = cut
    BY <1>9 DEF Call, db
  <2>2. /\ stack - n \in Nat /\ CurrentFrame.stackBase < stack - n /\ stack - n <= stack'
        /\ stack' \in 0 .. StackMax
    BY <2>0, <2>1, <1>b, <1>u DEF Has
  <2> QED
    BY <2>1, <2>2, <1>r, FrameStep
<1>10. ASSUME NEW n \in 0 .. MaxArgs, EffectInvoke(n) PROVE CallInv'
  <2>0. n \in Nat
    BY CallStackAssumption
  <2>1. /\ Has(n) /\ CanPushFrame /\ PushFrame(stack + 1 - n) /\ stack < StackMax
        /\ stack' = stack + 1 /\ txns' = txns
        /\ handlers' = handlers /\ error' = error /\ calls' = calls /\ mode' = mode
        /\ dbTxn' = dbTxn /\ callback' = callback /\ cut' = cut
    BY <1>10 DEF EffectInvoke, db
  <2>2. /\ stack + 1 - n \in Nat /\ CurrentFrame.stackBase < stack + 1 - n
        /\ stack + 1 - n <= stack' /\ stack' \in 0 .. StackMax
    BY <2>0, <2>1, <1>b, <1>u DEF Has
  <2> QED
    BY <2>1, <2>2, <1>r, FrameStep
<1>11. CASE Return
  BY <1>11, ReturnStep
<1>12. ASSUME CallBackThrows(stack), txns' = txns, handlers' = handlers, calls' = calls,
              cut' = cut, dbTxn' \in {"auto", "open", "committed", "rolledBack"},
              callback' \in {"none", "running", "returned", "failed"}
       PROVE  CallInv'
  <2>1. /\ stack' = (IF stack + 2 <= StackMax THEN stack + 2 ELSE StackMax)
        /\ frames' = frames /\ error' \in BOOLEAN /\ mode' = "failure"
    BY <1>12, <1>b DEF CallBackThrows, Fails
  <2>2. stack' \in 0 .. StackMax /\ CurrentFrame.stackBase <= stack'
    BY <2>1, <1>b, <1>u
  <2>3. ScalarsFit'
    BY <2>1, <2>2, <1>12, <1>b DEF ScalarsFit
  <2> QED
    BY <2>1, <2>2, <2>3, <1>12, <1>u, <1>r, LevelStep
<1>13. CASE IterNextThrows
  BY <1>12, <1>13, <1>b DEF IterNextThrows, db
<1>14. CASE WithTxThrows
  BY <1>12, <1>14, <1>b DEF WithTxThrows
<1>15. CASE WithTxRefused
  <2>1. /\ Wipe /\ dbTxn' = "rolledBack" /\ callback' = "failed" /\ error' \in BOOLEAN
        /\ mode' = "failure" /\ calls' = calls /\ cut' = cut
    BY <1>15, <1>b DEF WithTxRefused, Fails
  <2>2. ScalarsFit'
    BY <2>1, <1>b DEF ScalarsFit, Wipe
  <2>3. calls' \in Seq(Runs) /\ calls' # <<>> /\ CallsRooted(calls')
    BY <2>1 DEF CallInv, TypesFit, CallStackTypeOK
  <2> QED
    BY <2>1, <2>2, <2>3, WipeStep
<1>16. /\ calls \in Seq(Runs) /\ Len(calls) >= 1 /\ CallsRooted(calls) /\ SavedAbove(calls)
       /\ EntryFrames(calls)
       /\ ~cut => /\ Nested(calls) /\ FramesAbove(calls)
                  /\ \A i \in 1 .. Len(calls) : calls[i].entryFrameCount <= Depth
  <2>1. /\ calls \in Seq(Runs) /\ Len(calls) >= 1 /\ CallsRooted(calls) /\ SavedAbove(calls)
        /\ EntryFrames(calls)
    BY <1>t DEF CallInv, TypesFit, SizeFacts
  <2>2. ASSUME ~cut
        PROVE  /\ Nested(calls) /\ FramesAbove(calls)
               /\ \A i \in 1 .. Len(calls) : calls[i].entryFrameCount <= Depth
    <3>1. Nested(calls) /\ FramesAbove(calls)
      BY <2>2, <1>r DEF CallInv, EntriesIntact, Alive
    <3>2. ASSUME NEW i \in 1 .. Len(calls) PROVE calls[i].entryFrameCount <= Depth
      <4>1. RunFacts /\ Len(calls) \in Nat /\ Len(calls) >= 1
        BY Typed DEF SizeFacts
      <4>2. i = Len(calls) \/ i < Len(calls)
        BY <4>1
      <4>3. Len(calls) \in 1 .. Len(calls)
        BY <4>1
      <4>4. calls[i].entryFrameCount <= calls[Len(calls)].entryFrameCount
        BY <4>1, <4>2, <4>3, <3>1 DEF RunFacts, Nested
      <4>5. /\ calls[i].entryFrameCount \in Nat /\ calls[Len(calls)].entryFrameCount \in Nat
            /\ calls[Len(calls)].entryFrameCount <= Depth /\ Depth \in Nat
        BY <4>1, <4>3, <1>t DEF RunFacts, TopFacts, Innermost, SizeFacts
      <4> QED
        BY <4>4, <4>5
    <3> QED
      BY <3>1, <3>2
  <2> QED
    BY <2>1, <2>2
<1>17. ASSUME NEW n \in {1, 3}, Has(n)
       PROVE  \A i \in 1 .. Depth : frames[i].stackBase + n <= stack /\ stack >= n
  <2> TAKE i \in 1 .. Depth
  <2>1. frames[i].stackBase <= CurrentFrame.stackBase
    BY <1>t DEF TopFacts
  <2>2. frames[i].stackBase \in Nat
    BY Typed DEF FrameFacts
  <2> QED
    BY <2>1, <2>2, <1>17, <1>u, <1>b DEF Has
<1>18. Depth # 0 /\ stack \in Nat /\ 1 \in 1 .. Depth
  BY <1>t DEF TopFacts, SizeFacts
<1>19. CASE IterNext
  <2>1. /\ Has(1) /\ CallBack("iterator", stack, calls) /\ txns' = txns /\ handlers' = handlers
        /\ error' = error /\ dbTxn' = dbTxn /\ callback' = callback /\ cut' = cut
    BY <1>19 DEF IterNext, db
  <2>2. stack' \in 0 .. StackMax /\ mode' = "run"
    BY <2>1, <1>b DEF CallBack, CanCallBack
  <2>3. ScalarsFit'
    BY <2>1, <2>2, <1>b DEF ScalarsFit
  <2>4. \A i \in 1 .. Depth : frames[i].stackBase + Kept("iterator") <= stack
    <3> TAKE i \in 1 .. Depth
    <3>1. frames[i].stackBase + 1 <= stack /\ frames[i].stackBase \in Nat
      BY <2>1, <1>17, Typed DEF FrameFacts
    <3> QED
      BY <3>1, <1>18 DEF Kept
  <2>5. dbTxn' = "open" => \E i \in 1 .. Len(calls) : calls[i].kind = "withTx"
    BY <2>1, <1>r DEF CallInv, DbInWithTx, Alive
  <2> QED
    BY <2>1, <2>3, <2>4, <2>5, <1>16, <1>18, <1>r, CallBackStep
<1>20. CASE WithTx
  <2>1. /\ Has(3) /\ CallBack("withTx", stack, calls) /\ txns' = txns /\ handlers' = handlers
        /\ error' = FALSE /\ dbTxn' = "open" /\ callback' = "running" /\ cut' = cut
    BY <1>20 DEF WithTx
  <2>2. stack' \in 0 .. StackMax /\ mode' = "run"
    BY <2>1, <1>b DEF CallBack, CanCallBack
  <2>3. ScalarsFit'
    BY <2>1, <2>2, <1>b DEF ScalarsFit
  <2>4. \A i \in 1 .. Depth : frames[i].stackBase + Kept("withTx") <= stack
    BY <2>1, <1>17 DEF Kept
  <2>5. stack >= 3
    BY <2>1, <1>17, <1>18
  <2> QED
    BY <2>1, <2>3, <2>4, <2>5, <1>16, <1>18, <1>r, CallBackStep
<1> QED
  BY <1>1, <1>2, <1>3, <1>4, <1>5, <1>6, <1>7, <1>8, <1>9, <1>10, <1>11, <1>13, <1>14, <1>15,
     <1>19, <1>20 DEF Instruction

(* So does every return of a nested Run to its C++ caller. *)
LEMMA NestedRunEndsKeepsInv ==
  ASSUME CallInv, NestedRunEnds
  PROVE  CallInv'
<1>b. /\ stack \in 0 .. StackMax /\ txns \in 0 .. MaxTxns /\ handlers \in 0 .. MaxHandlers
      /\ error \in BOOLEAN /\ cut \in BOOLEAN
      /\ dbTxn \in {"auto", "open", "committed", "rolledBack"}
      /\ callback \in {"none", "running", "returned", "failed"}
      /\ StackMax \in Nat /\ MaxTxns \in Nat /\ MaxHandlers \in Nat
  BY CallStackAssumption DEF CallInv, TypesFit, CallStackTypeOK
<1>t. FrameFacts /\ RunFacts /\ SizeFacts
  BY Typed
<1>i. /\ Innermost = calls[Len(calls)] /\ Len(calls) \in 1 .. Len(calls)
      /\ Innermost.stackBase \in Nat /\ Innermost.stackBase <= StackMax
      /\ Innermost.entryFrameCount \in Nat
  BY <1>t DEF RunFacts, SizeFacts, Innermost
<1>w. ASSUME mode # "over", NEW i \in 1 .. Depth
      PROVE  /\ frames[i].stackBase \in Nat /\ 1 <= frames[i].stackBase
             /\ frames[i].stackBase <= stack
             /\ frames[i].stackBase <= CurrentFrame.stackBase /\ CurrentFrame.stackBase \in Nat
  <2>1. Depth \in 1 .. Depth
    BY <1>t DEF SizeFacts
  <2>2. i = Depth \/ i < Depth
    BY <2>1
  <2>3. frames[i].stackBase \in Nat /\ frames[Depth].stackBase \in Nat
    BY <2>1, <1>t DEF FrameFacts
  <2>4. frames[i].stackBase <= frames[Depth].stackBase
    BY <2>1, <2>2, <2>3 DEF CallInv, Ordered
  <2>5. 1 <= frames[i].stackBase /\ frames[i].stackBase <= stack
    BY <1>w DEF CallInv, Within
  <2> QED
    BY <2>3, <2>4, <2>5 DEF CurrentFrame
(* With a result on top, the frames stay below it. *)
<1>h. ASSUME mode # "over", HasResult
      PROVE  stack - 1 \in 0 .. StackMax /\ \A i \in 1 .. Depth : frames[i].stackBase <= stack - 1
  <2>1. \/ frames = <<>> /\ stack > 0
        \/ frames # <<>> /\ stack > CurrentFrame.stackBase
    BY <1>h DEF HasResult
  <2>2. CASE frames = <<>> /\ stack > 0
    <3>1. Depth = 0
      BY <2>2 DEF Depth
    <3> QED
      BY <2>2, <3>1, <1>b
  <2>3. CASE frames # <<>> /\ stack > CurrentFrame.stackBase
    <3>1. frames \in Seq(Frames)
      BY DEF CallInv, TypesFit
    <3>2. Depth \in 1 .. Depth
      BY <3>1, <2>3 DEF Depth
    <3>3. CurrentFrame.stackBase \in Nat
      BY <3>2, <1>h, <1>w
    <3>4. \A i \in 1 .. Depth : /\ frames[i].stackBase <= CurrentFrame.stackBase
                               /\ frames[i].stackBase \in Nat
      BY <1>h, <1>w
    <3>5. stack - 1 \in 0 .. StackMax
      BY <3>3, <2>3, <1>b
    <3> QED
      BY <3>3, <3>4, <3>5, <2>3, <1>b
  <2> QED
    BY <2>1, <2>2, <2>3
(* The caller of with_tx keeps its three values: frames lie below them. *)
<1>x. ASSUME mode = "success", Innermost.kind = "withTx"
      PROVE  /\ Innermost.stackBase - 3 \in Nat
             /\ \A i \in 1 .. Depth : frames[i].stackBase + 3 <= Innermost.stackBase
  <2>1. Innermost.stackBase >= 3
    BY <1>x, <1>i DEF CallInv, CallsRooted
  <2>2. ASSUME NEW j \in 1 .. Depth
        PROVE  frames[j].stackBase + 3 <= Innermost.stackBase
    <3>0. Depth < Innermost.entryFrameCount
      BY <1>x DEF CallInv, InnermostRuns
    <3>1. j < Innermost.entryFrameCount
      BY <3>0, <1>i, <1>t DEF SizeFacts
    <3>2. \A k \in Len(calls) .. Len(calls) : j < calls[k].entryFrameCount
      BY <3>1, <1>i
    <3>3. frames[j].stackBase + Kept(Innermost.kind) <= Innermost.stackBase
      BY <3>2, <1>i DEF CallInv, SavedAbove
    <3> QED
      BY <3>3, <1>x DEF Kept
  <2> QED
    BY <2>1, <2>2, <1>i
<1>1. CASE IteratorReturns
  <2>1. /\ mode = "success" /\ Innermost.kind = "iterator" /\ calls' = Outer /\ stack' = stack
        /\ frames' = frames /\ txns' = txns /\ handlers' = handlers /\ error' = error
        /\ dbTxn' = dbTxn /\ callback' = callback /\ cut' = cut /\ RunGoesOn(Outer)
    BY <1>1 DEF IteratorReturns, CallbackReturned, machine, db
  <2>2. \A i \in 1 .. Depth : frames[i].stackBase <= stack'
    BY <2>1, <1>w
  <2>3. ScalarsFit'
    BY <2>1, <1>b DEF ScalarsFit, RunGoesOn
  <2> QED
    BY <2>1, <2>2, <2>3, PopStep
<1>2. CASE IteratorEnds
  <2>1. /\ mode = "success" /\ Innermost.kind = "iterator" /\ calls' = Outer /\ stack' = stack - 1
        /\ frames' = frames /\ txns' = txns /\ handlers' = handlers /\ error' = error
        /\ dbTxn' = dbTxn /\ callback' = callback /\ cut' = cut /\ RunGoesOn(Outer) /\ HasResult
    BY <1>2 DEF IteratorEnds, CallbackReturned, db
  <2>2. stack' \in 0 .. StackMax /\ \A i \in 1 .. Depth : frames[i].stackBase <= stack'
    BY <2>1, <1>h
  <2>3. ScalarsFit'
    BY <2>1, <2>2, <1>b DEF ScalarsFit, RunGoesOn
  <2> QED
    BY <2>1, <2>2, <2>3, PopStep
<1>3. CASE FilterThrows
  <2>1. /\ mode = "success" /\ Innermost.kind = "iterator" /\ calls' = Outer /\ stack' = stack - 1
        /\ frames' = frames /\ txns' = txns /\ handlers' = handlers /\ error' \in BOOLEAN
        /\ dbTxn' = dbTxn /\ callback' = callback /\ cut' = cut /\ mode' = "failure" /\ HasResult
    BY <1>3, <1>b DEF FilterThrows, CallbackReturned, Fails, db
  <2>2. stack' \in 0 .. StackMax /\ \A i \in 1 .. Depth : frames[i].stackBase <= stack'
    BY <2>1, <1>h
  <2>3. ScalarsFit'
    BY <2>1, <2>2, <1>b DEF ScalarsFit
  <2> QED
    BY <2>1, <2>2, <2>3, PopStep
<1>4. CASE PopThrows
  <2>1. /\ mode = "success" /\ Innermost.kind = "iterator" /\ calls' = Outer /\ stack' = stack
        /\ frames' = frames /\ txns' = txns /\ handlers' = handlers /\ error' \in BOOLEAN
        /\ dbTxn' = dbTxn /\ callback' = callback /\ cut' = cut /\ mode' = "failure"
    BY <1>4, <1>b DEF PopThrows, Fails, machine, db
  <2>2. \A i \in 1 .. Depth : frames[i].stackBase <= stack'
    BY <2>1, <1>w
  <2>3. ScalarsFit'
    BY <2>1, <1>b DEF ScalarsFit
  <2> QED
    BY <2>1, <2>2, <2>3, PopStep
<1>5. CASE IteratorCallsAgain
  <2>1. /\ mode = "success" /\ Innermost.kind = "iterator" /\ HasResult
        /\ CallBack("iterator", stack - 1, Outer) /\ txns' = txns /\ handlers' = handlers
        /\ error' = error /\ dbTxn' = dbTxn /\ callback' = callback /\ cut' = cut
    BY <1>5 DEF IteratorCallsAgain, CallbackReturned, db
  <2>2. stack - 1 \in Nat /\ \A i \in 1 .. Depth : frames[i].stackBase <= stack - 1
    BY <2>1, <1>h, <1>b
  <2>3. stack' \in 0 .. StackMax /\ mode' = "run"
    BY <2>1, <2>2, <1>b DEF CallBack, CanCallBack
  <2>4. ScalarsFit'
    BY <2>1, <2>3, <1>b DEF ScalarsFit
  <2>5. \A i \in 1 .. Depth : frames[i].stackBase + Kept("iterator") <= stack - 1
    BY <2>1, <2>2, <1>w DEF Kept
  <2>6. Depth = 0 => txns = 0 /\ handlers = 0
    BY <2>1 DEF CallInv, RootedAtZero
  <2>7. /\ Outer \in Seq(Runs) /\ Len(Outer) >= 1 /\ CallsRooted(Outer)
        /\ \A i \in 1 .. Len(Outer) : Outer[i] = calls[i]
        /\ Len(Outer) = Len(calls) - 1
    BY <2>1, OuterRuns
  <2>8. /\ SavedAbove(Outer) /\ EntryFrames(Outer)
        /\ ~cut => /\ Nested(Outer) /\ FramesAbove(Outer)
                   /\ \A i \in 1 .. Len(Outer) : Outer[i].entryFrameCount <= Depth
    BY <2>1, OuterSettled
  <2>9. ASSUME dbTxn' = "open" PROVE \E i \in 1 .. Len(Outer) : Outer[i].kind = "withTx"
    <3>1. PICK i \in 1 .. Len(calls) : calls[i].kind = "withTx"
      BY <2>1, <2>9 DEF CallInv, DbInWithTx, Alive
    <3>2. i # Len(calls)
      BY <3>1, <2>1, <1>i
    <3>3. i \in 1 .. Len(Outer)
      BY <3>1, <3>2, <2>7, <1>t DEF SizeFacts
    <3> QED
      BY <3>1, <3>3, <2>7
  <2> QED
    BY <2>1, <2>2, <2>4, <2>5, <2>6, <2>7, <2>8, <2>9, CallBackStep
<1>6. CASE IteratorFails
  BY <1>6, CutBackStep
<1>7. CASE WithTxReturns
  <2>1. /\ mode = "success" /\ Innermost.kind = "withTx" /\ calls' = Outer
        /\ stack' = Least(stack, Innermost.stackBase - 3) + 1
        /\ frames' = frames /\ txns' = txns /\ handlers' = handlers /\ error' = error
        /\ dbTxn' = "committed" /\ callback' \in {"failed", "returned"} /\ cut' = cut
        /\ RunGoesOn(Outer)
    BY <1>7 DEF WithTxReturns, Ended
  <2>2. stack' \in 0 .. StackMax
    BY <2>1, <1>x, <1>b, <1>i DEF Least
  <2>3. ASSUME NEW i \in 1 .. Depth PROVE frames[i].stackBase <= stack'
    <3>1. frames[i].stackBase \in Nat /\ frames[i].stackBase <= stack
      BY <2>1, <1>w
    <3>2. frames[i].stackBase + 3 <= Innermost.stackBase
      BY <2>1, <1>x
    <3>3. stack \in Nat /\ Innermost.stackBase \in Nat
      BY <1>t, <1>i DEF SizeFacts
    <3> QED
      BY ONLY <3>1, <3>2, <3>3, <2>1, UnderLeast
  <2>4. ScalarsFit'
    BY <2>1, <2>2, <1>b DEF ScalarsFit, RunGoesOn
  <2> QED
    BY <2>1, <2>3, <2>4, PopStep
<1>8. CASE CommitFails
  <2>1. /\ mode = "success" /\ Innermost.kind = "withTx" /\ calls' = Outer
        /\ stack' = Least(stack, Innermost.stackBase)
        /\ frames' = frames /\ txns' = txns /\ handlers' = handlers /\ error' \in BOOLEAN
        /\ dbTxn' = "rolledBack" /\ callback' \in {"failed", "returned"} /\ cut' = cut
        /\ mode' = "failure"
    BY <1>8, <1>b DEF CommitFails, Ended, Fails
  <2>2. stack' \in 0 .. StackMax
    BY <2>1, <1>b, <1>i DEF Least
  <2>3. ASSUME NEW i \in 1 .. Depth PROVE frames[i].stackBase <= stack'
    <3>1. frames[i].stackBase \in Nat /\ frames[i].stackBase <= stack
      BY <2>1, <1>w
    <3>2. frames[i].stackBase + 3 <= Innermost.stackBase
      BY <2>1, <1>x
    <3>3. stack \in Nat /\ Innermost.stackBase \in Nat
      BY <1>t, <1>i DEF SizeFacts
    <3> QED
      BY ONLY <3>1, <3>2, <3>3, <2>1, UnderLeast
  <2>4. ScalarsFit'
    BY <2>1, <2>2, <1>b DEF ScalarsFit
  <2> QED
    BY <2>1, <2>3, <2>4, PopStep
<1>9. CASE WithTxFails
  <2>1. /\ Wipe /\ dbTxn' = "rolledBack" /\ callback' = "failed" /\ error' \in BOOLEAN
        /\ mode' = "failure" /\ calls' = Outer /\ cut' = cut /\ Innermost.kind = "withTx"
    BY <1>9, <1>b DEF WithTxFails, Fails
  <2>2. ScalarsFit'
    BY <2>1, <1>b DEF ScalarsFit, Wipe
  <2>3. Outer \in Seq(Runs) /\ Len(Outer) >= 1 /\ CallsRooted(Outer)
    BY <2>1, OuterRuns
  <2>4. Outer # <<>>
    BY <2>3
  <2> QED
    BY <2>1, <2>2, <2>3, <2>4, WipeStep
<1>10. CASE InvokeAnswersNothing
  <2>1. /\ Wipe /\ dbTxn' = dbTxn /\ callback' = "failed" /\ error' = error
        /\ mode' = "success" /\ calls' = calls /\ cut' = TRUE /\ Innermost.kind = "withTx"
    BY <1>10 DEF InvokeAnswersNothing
  <2>2. ScalarsFit'
    BY <2>1, <1>b DEF ScalarsFit, Wipe
  <2>3. calls \in Seq(Runs) /\ calls # <<>> /\ CallsRooted(calls)
    BY DEF CallInv, TypesFit, CallStackTypeOK
  <2>4. \E i \in 1 .. Len(calls) : calls[i].kind = "withTx"
    BY <2>1, <1>i
  <2> QED
    BY <2>1, <2>2, <2>3, <2>4, WipeStep
<1>11. CASE Ends
  BY <1>11, EndsStep
<1> QED
  BY <1>1, <1>2, <1>3, <1>4, <1>5, <1>6, <1>7, <1>8, <1>9, <1>10, <1>11 DEF NestedRunEnds

(* The invariant of every behaviour. *)
THEOREM CallInvariance == Spec => []CallInv
<1>1. CallInv /\ [Next]_vars => CallInv'
  <2> SUFFICES ASSUME CallInv, [Next]_vars PROVE CallInv'
    OBVIOUS
  <2>1. CASE Instruction
    BY <2>1, InstructionKeepsInv
  <2>2. CASE NestedRunEnds
    BY <2>2, NestedRunEndsKeepsInv
  <2>3. CASE UNCHANGED vars
    <3>1. /\ stack' = stack /\ frames' = frames /\ txns' = txns /\ handlers' = handlers
          /\ error' = error /\ calls' = calls /\ mode' = mode /\ dbTxn' = dbTxn
          /\ callback' = callback /\ cut' = cut
      BY <2>3 DEF vars, machine, db
    <3>2. Depth' = Depth /\ Innermost' = Innermost
      BY <3>1 DEF Depth, Innermost
    <3>3. TypesFit' /\ RootedAtZero' /\ CallsRooted(calls)' /\ InnermostRuns' /\ DbInWithTx'
          /\ NothingLeftActive'
      BY <3>1, <3>2 DEF CallInv, TypesFit, CallStackTypeOK, RootedAtZero, CallsRooted,
                        InnermostRuns, DbInWithTx, Alive, NothingLeftActive
    <3>4. Ordered' /\ Within'
      BY <3>1, <3>2 DEF CallInv, Ordered, Within
    <3>5. SavedAbove(calls)'
      BY <3>1, <3>2 DEF CallInv, SavedAbove
    <3>6. EntryFrames(calls)'
      BY <3>1, <3>2 DEF CallInv, EntryFrames
    <3>7. EntriesIntact'
      BY <3>1, <3>2 DEF CallInv, EntriesIntact, Nested, FramesAbove, Alive
    <3> QED
      BY <3>3, <3>4, <3>5, <3>6, <3>7 DEF CallInv
  <2> QED
    BY <2>1, <2>2, <2>3 DEF Next
<1> QED
  BY <1>1, InitEstablishesInv, PTL DEF Spec

-----------------------------------------------------------------------------
(* The types and the limits: neither the value stack nor the frames ever   *)
(* grow past STACK_MAX and FRAMES_MAX.                                     *)
THEOREM LimitsTheorem == Spec => []CallStackTypeOK
<1>1. CallInv => CallStackTypeOK
  BY DEF CallInv, TypesFit
<1> QED
  BY <1>1, CallInvariance, PTL

(* Frames lie on top of each other, so that HandleReturn never cuts into   *)
(* the caller, however calls, effects and callbacks are nested.            *)
THEOREM WellNestedTheorem == Spec => []WellNested
<1>1. CallInv => WellNested
  <2> SUFFICES ASSUME CallInv PROVE WellNested
    OBVIOUS
  <2>1. Depth \in Nat
    BY Typed DEF SizeFacts
  <2>2. \A i \in 1 .. Depth - 1 : i \in 1 .. Depth /\ i + 1 \in 1 .. Depth /\ i < i + 1
    BY <2>1
  <2> QED
    BY <2>2 DEF CallInv, Within, Ordered, WellNested
<1> QED
  BY <1>1, CallInvariance, PTL

(* While Aura code runs, everything that the C++ callers below it have     *)
(* saved is still there.                                                   *)
THEOREM CallersIntactTheorem == Spec => []CallersIntact
<1>1. CallInv => CallersIntact
  <2> SUFFICES ASSUME CallInv, Running, ~cut, NEW i \in 1 .. Len(calls)
               PROVE  /\ calls[i].entryFrameCount <= Depth /\ calls[i].stackBase < stack
                      /\ calls[i].transactionBase <= txns /\ calls[i].handlerBase <= handlers
    BY DEF CallersIntact
  <2>t. FrameFacts /\ RunFacts /\ SizeFacts /\ TopFacts
    BY Typed, RunningFrame
  <2>1. Nested(calls) /\ FramesAbove(calls)
    BY DEF CallInv, EntriesIntact, Alive, Running
  <2>2. /\ Len(calls) \in 1 .. Len(calls) /\ Depth \in 1 .. Depth
        /\ i = Len(calls) \/ i < Len(calls)
    BY <2>t DEF SizeFacts, TopFacts
  <2>3. calls[i].entryFrameCount <= calls[Len(calls)].entryFrameCount
    BY <2>1, <2>2, <2>t DEF Nested, RunFacts
  <2>4. /\ calls[i].entryFrameCount \in Nat /\ calls[Len(calls)].entryFrameCount \in Nat
        /\ calls[i].stackBase \in Nat /\ calls[i].transactionBase \in Nat
        /\ calls[i].handlerBase \in Nat
    BY <2>2, <2>t DEF RunFacts
  <2>5. calls[Len(calls)].entryFrameCount <= Depth
    BY <2>t DEF TopFacts, Innermost
  <2>6. calls[i].entryFrameCount <= Depth
    BY <2>2, <2>3, <2>4, <2>5
  <2>7. /\ calls[i].stackBase < CurrentFrame.stackBase
        /\ calls[i].transactionBase <= CurrentFrame.transactionBase
        /\ calls[i].handlerBase <= CurrentFrame.handlerBase
    BY <2>1, <2>2, <2>6 DEF FramesAbove, CurrentFrame
  <2>8. /\ CurrentFrame.stackBase \in Nat /\ CurrentFrame.transactionBase \in Nat
        /\ CurrentFrame.handlerBase \in Nat
        /\ CurrentFrame.stackBase <= stack /\ CurrentFrame.transactionBase <= txns
        /\ CurrentFrame.handlerBase <= handlers
        /\ stack \in Nat /\ txns \in Nat /\ handlers \in Nat
    BY <2>t DEF TopFacts, SizeFacts
  <2>9. calls[i].stackBase < stack
    BY <2>4, <2>7, <2>8
  <2>10. calls[i].transactionBase <= txns
    BY <2>4, <2>7, <2>8
  <2>11. calls[i].handlerBase <= handlers
    BY <2>4, <2>7, <2>8
  <2> QED
    BY <2>6, <2>9, <2>10, <2>11
<1> QED
  BY <1>1, CallInvariance, PTL

(* A program that is over has released its transactions and handlers, on   *)
(* every path to the end.                                                  *)
THEOREM NothingLeftTheorem == Spec => []NothingLeftActive
<1>1. CallInv => NothingLeftActive
  BY DEF CallInv
<1> QED
  BY <1>1, CallInvariance, PTL

(* A with_tx below the innermost Run stays when that Run, of an iterator,  *)
(* returns to its caller.                                                  *)
LEMMA WithTxStays ==
  ASSUME CallInv, Innermost.kind = "iterator",
         \E i \in 1 .. Len(calls) : calls[i].kind = "withTx"
  PROVE  \E i \in 1 .. Len(Outer) : Outer[i].kind = "withTx"
<1>1. PICK i \in 1 .. Len(calls) : calls[i].kind = "withTx"
  OBVIOUS
<1>2. /\ Len(Outer) = Len(calls) - 1 /\ Len(Outer) \in Nat
      /\ \A k \in 1 .. Len(Outer) : Outer[k] = calls[k]
  BY OuterRuns
<1>3. i # Len(calls)
  BY <1>1 DEF Innermost
<1>4. i \in 1 .. Len(Outer)
  BY <1>1, <1>2, <1>3
<1> QED
  BY <1>1, <1>2, <1>4

(* Every step that lets the machine go on is covered by CallInv; those     *)
(* that fail keep the enclosing with_tx or the error of the full stack.    *)
LEMMA StepKeepsNoStray ==
  CallInv /\ CallInv' /\ NoStrayDbTransaction /\ [Next]_vars => NoStrayDbTransaction'
<1> SUFFICES ASSUME CallInv, CallInv', NoStrayDbTransaction, [Next]_vars, dbTxn' = "open"
             PROVE  \/ \E i \in 1 .. Len(calls') : calls'[i].kind = "withTx"
                    \/ mode' \in {"failure", "over"} /\ error' /\ callback' = "none"
  BY DEF NoStrayDbTransaction
<1> DEFINE InTx(cs) == \E i \in 1 .. Len(cs) : cs[i].kind = "withTx"
<1>1. CASE mode' \in {"run", "success"}
  BY <1>1 DEF CallInv, DbInWithTx, Alive
<1>2. CASE WithTxThrows
  BY <1>2 DEF WithTxThrows, CallBackThrows, Fails
<1>3. ASSUME Alive, calls' = calls, dbTxn' = dbTxn PROVE InTx(calls')
  BY <1>3 DEF CallInv, DbInWithTx, Alive
<1>4. CASE FilterThrows \/ PopThrows
  <2>1. Alive /\ Innermost.kind = "iterator" /\ dbTxn = "open" /\ calls' = Outer
    BY <1>4 DEF FilterThrows, PopThrows, CallbackReturned, Alive, db
  <2>2. InTx(calls)
    BY <2>1 DEF CallInv, DbInWithTx
  <2> QED
    BY <2>1, <2>2, WithTxStays
<1>5. CASE IteratorFails
  <2>1. /\ Innermost.kind = "iterator" /\ dbTxn = "open" /\ calls' = Outer
        /\ mode' = "failure" /\ error' /\ callback' = callback
    BY <1>5 DEF IteratorFails, Fails, db
  <2>2. CASE InTx(calls)
    BY <2>1, <2>2, WithTxStays
  <2> QED
    BY <2>1, <2>2 DEF NoStrayDbTransaction
<1>6. CASE Ends
  <2>1. /\ mode \in {"success", "failure"} /\ Len(calls) = 1 /\ mode' = "over"
        /\ error' = error /\ dbTxn = "open" /\ callback' = callback
    BY <1>6 DEF Ends, db
  <2>2. ~InTx(calls)
    BY <2>1 DEF CallInv, CallsRooted
  <2>3. mode # "success"
    BY <2>1, <2>2 DEF CallInv, DbInWithTx, Alive
  <2> QED
    BY <2>1, <2>2, <2>3 DEF NoStrayDbTransaction
<1>7. CASE UNCHANGED vars
  BY <1>7 DEF vars, db, NoStrayDbTransaction
<1>8. ASSUME \/ InstructionFails \/ BeginContended \/ IterNextThrows
      PROVE  Alive /\ calls' = calls /\ dbTxn' = dbTxn
  BY <1>8 DEF InstructionFails, BeginContended, IterNextThrows, Running, Alive, db
<1>9. ASSUME \/ WithTxRefused \/ WithTxReturns \/ CommitFails \/ WithTxFails
      PROVE  FALSE
  BY <1>9 DEF WithTxRefused, WithTxReturns, CommitFails, WithTxFails
<1>10. ASSUME \/ Push \/ Pop \/ BeginTransaction \/ EndTransaction \/ PushHandler \/ PopHandler
              \/ \E n \in 0 .. MaxArgs : Call(n) \/ EffectInvoke(n)
       PROVE  mode' = "run"
  BY <1>10 DEF Push, Pop, BeginTransaction, EndTransaction, PushHandler, PopHandler, Call,
               EffectInvoke, Running
<1>11. ASSUME \/ Return \/ IterNext \/ WithTx
              \/ IteratorReturns \/ IteratorEnds \/ IteratorCallsAgain \/ InvokeAnswersNothing
       PROVE  mode' \in {"run", "success"}
  BY <1>11 DEF Return, IterNext, WithTx, IteratorReturns, IteratorEnds, IteratorCallsAgain,
               InvokeAnswersNothing, RunGoesOn, CallBack
<1> QED
  BY <1>1, <1>2, <1>3, <1>4, <1>5, <1>6, <1>7, <1>8, <1>9, <1>10, <1>11
  DEF Next, Instruction, NestedRunEnds

(* The only transaction of the connection that no with_tx will end is the  *)
(* one of a with_tx that met a full stack, and no Aura code runs with it.  *)
THEOREM NoStrayTheorem == Spec => []NoStrayDbTransaction
<1>1. Init => NoStrayDbTransaction
  BY DEF Init, NoStrayDbTransaction
<1> QED
  BY <1>1, StepKeepsNoStray, CallInvariance, PTL DEF Spec

(* A step that removes frames also removes the transactions and handlers   *)
(* begun in them: a return, the failure of a callback, an error.           *)
THEOREM FramesTakeTheirOwnTheorem == Spec => FramesTakeTheirOwn
<1>1. CallInv /\ [Next]_vars =>
        [Len(frames') < Depth =>
           /\ txns' <= frames[Len(frames') + 1].transactionBase
           /\ handlers' <= frames[Len(frames') + 1].handlerBase]_vars
  <2> SUFFICES ASSUME CallInv, Next, Len(frames') < Depth
               PROVE  /\ txns' <= frames[Len(frames') + 1].transactionBase
                      /\ handlers' <= frames[Len(frames') + 1].handlerBase
    OBVIOUS
  <2>t. FrameFacts /\ RunFacts /\ SizeFacts
    BY Typed
  <2>s. frames \in Seq(Frames) /\ Depth \in Nat /\ Depth = Len(frames)
    BY <2>t DEF CallInv, TypesFit, SizeFacts, Depth
  <2>1. ASSUME frames' = frames PROVE FALSE
    BY <2>1, <2>s
  <2>2. ASSUME NEW b, PushFrame(b) PROVE FALSE
    <3>1. frames' = Append(frames, Frame(b, txns, handlers))
      BY <2>2 DEF PushFrame
    <3>2. Len(frames') = Len(frames) + 1
      BY <3>1, <2>s
    <3> QED
      BY <3>2, <2>s
  <2>3. ASSUME frames' = <<>>, txns' = 0, handlers' = 0
        PROVE  /\ txns' <= frames[Len(frames') + 1].transactionBase
               /\ handlers' <= frames[Len(frames') + 1].handlerBase
    <3>1. Len(frames') + 1 = 1 /\ 1 \in 1 .. Depth
      BY <2>3, <2>s
    <3>2. frames[1].transactionBase \in Nat /\ frames[1].handlerBase \in Nat
      BY <3>1, <2>t DEF FrameFacts
    <3> QED
      BY <3>1, <3>2, <2>3
  <2>4. CASE Return
    <3>1. TopFacts
      BY <2>4, RunningFrame DEF Return
    <3>2. Depth - 1 \in 0 .. Len(frames)
      BY <2>s, <3>1 DEF TopFacts
    <3>3. Len(frames') = Depth - 1
      BY <2>4, <2>s, <3>2, Prefix DEF Return
    <3>4. Len(frames') + 1 = Depth
      BY <3>3, <2>s
    <3>5. /\ txns' = frames[Depth].transactionBase /\ handlers' = frames[Depth].handlerBase
      BY <2>4 DEF Return, CurrentFrame
    <3>6. CurrentFrame.transactionBase \in Nat /\ CurrentFrame.handlerBase \in Nat
      BY <3>1 DEF TopFacts
    <3> QED
      BY <3>4, <3>5, <3>6 DEF CurrentFrame
  <2>5. CASE IteratorFails
    <3> DEFINE e == Innermost.entryFrameCount
               d == Least(Depth, e - 1)
    <3>1. /\ e \in Nat /\ e >= 1 /\ Len(calls) \in 1 .. Len(calls)
          /\ Innermost = calls[Len(calls)]
          /\ Innermost.transactionBase \in Nat /\ Innermost.handlerBase \in Nat
      BY <2>t DEF RunFacts, SizeFacts, Innermost
    <3>2. d \in 0 .. Len(frames)
      BY <3>1, <2>s DEF Least
    <3>3. Len(frames') = d
      BY <3>2, <2>5, <2>s, Prefix DEF IteratorFails
    <3>4. Len(frames') + 1 = e /\ e \in 1 .. Depth /\ e <= Depth
      BY <3>1, <3>3, <2>s DEF Least
    <3>5. \A k \in Len(calls) + 1 .. Len(calls) : e < calls[k].entryFrameCount
      BY <3>1
    <3>6. /\ frames[e].transactionBase = Innermost.transactionBase
          /\ frames[e].handlerBase = Innermost.handlerBase
      BY <3>1, <3>4, <3>5 DEF CallInv, EntryFrames
    <3>7. /\ txns' = Least(txns, Innermost.transactionBase)
          /\ handlers' = Least(handlers, Innermost.handlerBase)
      BY <2>5 DEF IteratorFails
    <3>8. txns' <= Innermost.transactionBase /\ handlers' <= Innermost.handlerBase
      BY <3>1, <3>7, <2>t DEF Least, SizeFacts
    <3> QED
      BY <3>4, <3>6, <3>8
  <2>6. CASE WithTxRefused \/ WithTxFails \/ InvokeAnswersNothing
    BY <2>3, <2>6 DEF WithTxRefused, WithTxFails, InvokeAnswersNothing, Wipe
  <2>7. CASE Ends
    <3>1. frames' = frames \/ (frames' = <<>> /\ txns' = 0 /\ handlers' = 0)
      BY <2>7 DEF Ends
    <3> QED
      BY <3>1, <2>1, <2>3
  <2>8. CASE IterNext \/ WithTx \/ IteratorCallsAgain
    BY <2>2, <2>8 DEF IterNext, WithTx, IteratorCallsAgain, CallBack
  <2>9. ASSUME NEW n \in 0 .. MaxArgs, Call(n) \/ EffectInvoke(n) PROVE FALSE
    BY <2>2, <2>9 DEF Call, EffectInvoke
  <2>10. CASE Push \/ Pop \/ InstructionFails \/ BeginTransaction \/ BeginContended
                \/ EndTransaction \/ PushHandler \/ PopHandler \/ IterNextThrows \/ WithTxThrows
    BY <2>1, <2>10 DEF Push, Pop, InstructionFails, BeginTransaction, BeginContended,
                       EndTransaction, PushHandler, PopHandler, IterNextThrows, WithTxThrows,
                       CallBackThrows, machine
  <2>11. CASE IteratorReturns \/ IteratorEnds \/ FilterThrows \/ PopThrows \/ WithTxReturns
                \/ CommitFails
    BY <2>1, <2>11 DEF IteratorReturns, IteratorEnds, FilterThrows, PopThrows, WithTxReturns,
                       CommitFails, machine
  <2> QED
    BY <2>4, <2>5, <2>6, <2>7, <2>8, <2>9, <2>10, <2>11 DEF Next, Instruction, NestedRunEnds
<1> QED
  BY <1>1, CallInvariance, PTL DEF Spec, FramesTakeTheirOwn
=============================================================================
