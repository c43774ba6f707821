----------------------------- MODULE CallStack -----------------------------
(***************************************************************************)
(* One virtual machine: the value stack, the call frames, the active       *)
(* transactions and the effect handlers of its ExecutionContext, and the   *)
(* C++ calls of Run that are nested in each other because a native         *)
(* function or an iterator calls back into Aura code                       *)
(* (VirtualMachineCore.cpp, VirtualMachineCallsAndActors.cpp,              *)
(* ExecutionContextFrames.cpp, ExecutionContextEffects.cpp).  The native   *)
(* that calls back is std.mysql.with_tx, so that the database transaction  *)
(* is modelled with it.                                                    *)
(*                                                                         *)
(* Values are abstracted to the height of the stack.  A step is one        *)
(* instruction, or the return of one nested Run to its C++ caller.         *)
(* Generated code is taken to be balanced: it never pops below the base of *)
(* its frame and ends only transactions and handlers that it began.        *)
(***************************************************************************)
EXTENDS Naturals, Sequences

CONSTANTS
  FramesMax,   \* FRAMES_MAX, 64 in the code
  StackMax,    \* STACK_MAX, 4096 in the code
  MaxTxns,     \* bound on nested transactions
  MaxHandlers, \* bound on nested handle blocks
  MaxNested,   \* bound on nested calls of Run
  MaxArgs      \* bound on the arguments of a call

ASSUME CallStackAssumption ==
  /\ FramesMax \in Nat \ {0} /\ StackMax \in Nat \ {0}
  /\ MaxTxns \in Nat /\ MaxHandlers \in Nat /\ MaxNested \in Nat /\ MaxArgs \in Nat

VARIABLES
  stack,     \* m_valueStack.size()
  frames,    \* m_frames: the bases of each CallFrame
  txns,      \* m_activeTransactions.size()
  handlers,  \* m_handlerStack.size()
  error,     \* m_errorMessage is not empty
  calls,     \* the nested Run calls, each with what its C++ caller has saved
  mode,      \* "run", or the ExecutionResult of the innermost Run, or "over"
  dbTxn,     \* the connection: "auto", "open", "committed" or "rolledBack"
  callback,  \* history: how the callback of the last with_tx ended
  cut        \* history: a callback failed without an error message

machine == <<stack, frames, txns, handlers>>
db == <<dbTxn, callback>>
vars == <<machine, error, calls, mode, db, cut>>

Frame(base, t, h) == [stackBase |-> base, transactionBase |-> t, handlerBase |-> h]

(* Interpret and, for tasks and actors, InvokeCallable on a fresh machine. *)
Init ==
  /\ stack = 1 /\ txns = 0 /\ handlers = 0 /\ error = FALSE
  /\ frames = <<Frame(1, 0, 0)>>
  /\ \E k \in {"interpret", "task"} :
       calls = <<[kind |-> k, entryFrameCount |-> 1, stackBase |-> 0,
                  transactionBase |-> 0, handlerBase |-> 0]>>
  /\ mode = "run"
  /\ dbTxn = "auto" /\ callback = "none" /\ cut = FALSE

Depth == Len(frames)
CurrentFrame == frames[Depth]
Innermost == calls[Len(calls)]
Outer == SubSeq(calls, 1, Len(calls) - 1)

Running == mode = "run"
Has(n) == stack >= CurrentFrame.stackBase + n   \* n values above the base

(* What Run does after an instruction: success once its frame is gone. *)
RunGoesOn(cs) ==
  mode' = IF Len(frames') < cs[Len(cs)].entryFrameCount THEN "success" ELSE "run"

(* An instruction fails, with a message or without. *)
Fails(message) ==
  /\ error' = (error \/ message)
  /\ mode' = "failure"

-----------------------------------------------------------------------------
(* Instructions that call nothing. *)

Push ==
  /\ Running /\ stack < StackMax
  /\ stack' = stack + 1
  /\ UNCHANGED <<frames, txns, handlers, error, calls, mode, db, cut>>

Pop ==
  /\ Running /\ Has(1)
  /\ stack' = stack - 1
  /\ UNCHANGED <<frames, txns, handlers, error, calls, mode, db, cut>>

(* Fail, an exception, a stack overflow, or an error of a native function. *)
InstructionFails ==
  /\ Running
  /\ Fails(TRUE)
  /\ UNCHANGED <<machine, calls, db, cut>>

(* OP_BEGIN_TXN takes the mutex from the stack; it fails without a message *)
(* when another thread holds it.                                           *)
BeginTransaction ==
  /\ Running /\ Has(1) /\ txns < MaxTxns
  /\ stack' = stack - 1
  /\ txns' = txns + 1
  /\ UNCHANGED <<frames, handlers, error, calls, mode, db, cut>>

BeginContended ==
  /\ Running /\ Has(1)
  /\ stack' = stack - 1
  /\ Fails(FALSE)
  /\ UNCHANGED <<frames, txns, handlers, calls, db, cut>>

EndTransaction ==
  /\ Running /\ txns > CurrentFrame.transactionBase
  /\ txns' = txns - 1
  /\ UNCHANGED <<stack, frames, handlers, error, calls, mode, db, cut>>

PushHandler ==
  /\ Running /\ Has(1) /\ handlers < MaxHandlers
  /\ stack' = stack - 1
  /\ handlers' = handlers + 1
  /\ UNCHANGED <<frames, txns, error, calls, mode, db, cut>>

PopHandler ==
  /\ Running /\ handlers > CurrentFrame.handlerBase
  /\ handlers' = handlers - 1
  /\ UNCHANGED <<stack, frames, txns, error, calls, mode, db, cut>>

-----------------------------------------------------------------------------
(* Calls and returns. *)

CanPushFrame == Depth < FramesMax
PushFrame(base) == frames' = Append(frames, Frame(base, txns, handlers))

(* Faulty variant: the frame begins one value too low. *)
CallTooLow(n) ==
  /\ Running /\ Has(n + 1) /\ CanPushFrame
  /\ PushFrame(stack - n - 1)
  /\ UNCHANGED <<stack, txns, handlers, error, calls, mode, db, cut>>

(* HandleResolvedCall of a function whose n arguments are on the stack. *)
Call(n) ==
  /\ Running /\ Has(n + 1) /\ CanPushFrame
  /\ PushFrame(stack - n)
  /\ UNCHANGED <<stack, txns, handlers, error, calls, mode, db, cut>>

(* OP_EFFECT_INVOKE puts the handler under its arguments and calls it; the *)
(* handle block stays active while it runs.                                *)
EffectInvoke(n) ==
  /\ Running /\ Has(n) /\ CanPushFrame
  /\ handlers > 0 /\ stack < StackMax
  /\ stack' = stack + 1
  /\ PushFrame(stack + 1 - n)
  /\ UNCHANGED <<txns, handlers, error, calls, mode, db, cut>>

(* Faulty variant: the transactions of the frame stay active. *)
ReturnKeepsTransactions ==
  /\ Running
  /\ handlers' = CurrentFrame.handlerBase
  /\ stack' = CurrentFrame.stackBase
  /\ frames' = SubSeq(frames, 1, Depth - 1)
  /\ RunGoesOn(calls)
  /\ UNCHANGED <<txns, error, calls, db, cut>>

(* Faulty variant: Run goes on with the frame of whoever called Run. *)
ReturnIntoCaller ==
  /\ Running
  /\ txns' = CurrentFrame.transactionBase
  /\ handlers' = CurrentFrame.handlerBase
  /\ stack' = CurrentFrame.stackBase
  /\ frames' = SubSeq(frames, 1, Depth - 1)
  /\ mode' = IF frames' = <<>> THEN "success" ELSE "run"
  /\ UNCHANGED <<error, calls, db, cut>>

(* HandleReturn: the function and everything above it are replaced by the  *)
(* result.                                                                 *)
Return ==
  /\ Running
  /\ txns' = CurrentFrame.transactionBase
  /\ handlers' = CurrentFrame.handlerBase
  /\ stack' = CurrentFrame.stackBase
  /\ frames' = SubSeq(frames, 1, Depth - 1)
  /\ RunGoesOn(calls)
  /\ UNCHANGED <<error, calls, db, cut>>

-----------------------------------------------------------------------------
(* Nested runs. *)

Saved(kind, base) ==
  [kind |-> kind, entryFrameCount |-> Depth + 1, stackBase |-> base,
   transactionBase |-> txns, handlerBase |-> handlers]

(* A callback of one argument: function and argument are pushed above      *)
(* base, then a frame.  It throws, with the values still there, when one   *)
(* of the stacks is full.                                                  *)
CanCallBack(base) == CanPushFrame /\ base + 2 <= StackMax

CallBack(kind, base, cs) ==
  /\ CanCallBack(base) /\ Len(cs) < MaxNested
  /\ stack' = base + 2
  /\ PushFrame(base + 1)
  /\ calls' = Append(cs, Saved(kind, base))
  /\ mode' = "run"

CallBackThrows(base) ==
  /\ ~CanCallBack(base)
  /\ stack' = IF base + 2 <= StackMax THEN base + 2 ELSE StackMax
  /\ UNCHANGED frames
  /\ Fails(TRUE)

(* OP_ITER_NEXT of a transform or a filter. *)
IterNext ==
  /\ Running /\ Has(1)
  /\ CallBack("iterator", stack, calls)
  /\ UNCHANGED <<txns, handlers, error, db, cut>>

IterNextThrows ==
  /\ Running /\ Has(1)
  /\ CallBackThrows(stack)
  /\ UNCHANGED <<txns, handlers, calls, db, cut>>

(* PopValue does not go below the base of the current frame. *)
HasResult == stack > (IF frames = <<>> THEN 0 ELSE CurrentFrame.stackBase)

CallbackReturned == mode = "success" /\ Innermost.kind = "iterator" /\ HasResult

(* The callback has returned and the iterator has its value, which the     *)
(* instruction pushes.                                                     *)
IteratorReturns ==
  /\ CallbackReturned
  /\ calls' = Outer
  /\ UNCHANGED <<machine, error, db, cut>>
  /\ RunGoesOn(Outer)

(* A filter that rejects the last value: the iterator is exhausted. *)
IteratorEnds ==
  /\ CallbackReturned
  /\ stack' = stack - 1
  /\ calls' = Outer
  /\ UNCHANGED <<frames, txns, handlers, error, db, cut>>
  /\ RunGoesOn(Outer)

(* A filter that tries the next value, or a transform of a transform; the  *)
(* stacks have room for it as they had for the callback before.            *)
IteratorCallsAgain ==
  /\ CallbackReturned
  /\ CallBack("iterator", stack - 1, Outer)
  /\ UNCHANGED <<txns, handlers, error, db, cut>>

(* A filter whose predicate gives no Boolean. *)
FilterThrows ==
  /\ CallbackReturned
  /\ stack' = stack - 1
  /\ calls' = Outer
  /\ Fails(TRUE)
  /\ UNCHANGED <<frames, txns, handlers, db, cut>>

(* A callback that was cut short has left nothing to pop. *)
PopThrows ==
  /\ mode = "success" /\ Innermost.kind = "iterator" /\ ~HasResult
  /\ calls' = Outer
  /\ Fails(TRUE)
  /\ UNCHANGED <<machine, db, cut>>

Least(a, b) == IF a < b THEN a ELSE b

(* Faulty variant: the value is skipped and the program goes on. *)
IteratorSkipsFailed ==
  /\ mode = "failure" /\ Innermost.kind = "iterator"
  /\ frames' = SubSeq(frames, 1, Least(Depth, Innermost.entryFrameCount - 1))
  /\ stack' = Least(stack, Innermost.stackBase)
  /\ txns' = Least(txns, Innermost.transactionBase)
  /\ handlers' = Least(handlers, Innermost.handlerBase)
  /\ calls' = Outer
  /\ error' = FALSE
  /\ RunGoesOn(Outer)
  /\ UNCHANGED <<db, cut>>

(* The callback has failed: everything is put back to where it was, and    *)
(* an exception makes the instruction of the outer Run fail.               *)
IteratorFails ==
  /\ mode = "failure" /\ Innermost.kind = "iterator"
  /\ frames' = SubSeq(frames, 1, Least(Depth, Innermost.entryFrameCount - 1))
  /\ stack' = Least(stack, Innermost.stackBase)
  /\ txns' = Least(txns, Innermost.transactionBase)
  /\ handlers' = Least(handlers, Innermost.handlerBase)
  /\ calls' = Outer
  /\ Fails(TRUE)
  /\ UNCHANGED <<db, cut>>

-----------------------------------------------------------------------------
(* std.mysql.with_tx(connection, callback) through InvokeCallable. *)

WithTx ==
  /\ Running /\ Has(3)
  /\ CallBack("withTx", stack, calls)
  /\ error' = FALSE
  /\ dbTxn' = "open" /\ callback' = "running"
  /\ UNCHANGED <<txns, handlers, cut>>

(* The exception passes through with_tx, which does not catch it. *)
WithTxThrows ==
  /\ Running /\ Has(3)
  /\ CallBackThrows(stack)
  /\ dbTxn' = "open" /\ callback' = "none"
  /\ UNCHANGED <<txns, handlers, calls, cut>>

(* InvokeCallable after a failure: nothing is left of any caller. *)
Wipe == stack' = 0 /\ frames' = <<>> /\ txns' = 0 /\ handlers' = 0

(* The callback is no function of one argument. *)
WithTxRefused ==
  /\ Running /\ Has(3) /\ stack + 2 <= StackMax
  /\ Wipe
  /\ dbTxn' = "rolledBack" /\ callback' = "failed"
  /\ Fails(TRUE)
  /\ UNCHANGED <<calls, cut>>

(* Faulty variant: the connection is left in the transaction. *)
WithTxReturnsOpen ==
  /\ mode = "success" /\ Innermost.kind = "withTx"
  /\ UNCHANGED <<frames, txns, handlers, error, cut, dbTxn>>
  /\ callback' = "returned"
  /\ stack' = Least(stack, Innermost.stackBase - 3) + 1
  /\ calls' = Outer
  /\ RunGoesOn(Outer)

(* It stays "failed" when it is only taken for one that has returned. *)
Ended == IF callback = "failed" THEN "failed" ELSE "returned"

(* The callback has returned: commit, and the call of with_tx is replaced  *)
(* by the result.                                                          *)
WithTxReturns ==
  /\ mode = "success" /\ Innermost.kind = "withTx"
  /\ UNCHANGED <<frames, txns, handlers, error, cut>>
  /\ dbTxn' = "committed" /\ callback' = Ended
  /\ stack' = Least(stack, Innermost.stackBase - 3) + 1
  /\ calls' = Outer
  /\ RunGoesOn(Outer)

CommitFails ==
  /\ mode = "success" /\ Innermost.kind = "withTx"
  /\ dbTxn' = "rolledBack" /\ callback' = Ended
  /\ stack' = Least(stack, Innermost.stackBase)
  /\ calls' = Outer
  /\ Fails(TRUE)
  /\ UNCHANGED <<frames, txns, handlers, cut>>

(* The callback has failed with a message: rollback, raise it again. *)
WithTxFails ==
  /\ mode = "failure" /\ Innermost.kind = "withTx" /\ error
  /\ Wipe
  /\ dbTxn' = "rolledBack" /\ callback' = "failed"
  /\ calls' = Outer
  /\ Fails(TRUE)
  /\ UNCHANGED cut

(* It has failed without one: ReadErrorMessage has nothing to answer, and  *)
(* with_tx goes on as if the callback had returned.                        *)
InvokeAnswersNothing ==
  /\ mode = "failure" /\ Innermost.kind = "withTx" /\ ~error
  /\ Wipe
  /\ callback' = "failed"
  /\ cut' = TRUE
  /\ mode' = "success"
  /\ UNCHANGED <<error, calls, dbTxn>>

-----------------------------------------------------------------------------
(* The outermost Run is over. *)

(* Faulty variant: a failed Interpret does not unwind. *)
EndsWithoutUnwinding ==
  /\ mode \in {"success", "failure"} /\ Len(calls) = 1
  /\ mode' = "over"
  /\ UNCHANGED <<machine, error, calls, db, cut>>

(* Interpret, which keeps the stack and the frames of a failed program,    *)
(* and InvokeCallable on the machine of a task or an actor.                *)
Ends ==
  /\ mode \in {"success", "failure"} /\ Len(calls) = 1
  /\ mode' = "over"
  /\ IF mode = "success"
       THEN /\ stack' = IF Innermost.kind = "task" THEN 0 ELSE stack
            /\ UNCHANGED <<frames, txns, handlers>>
       ELSE /\ txns' = 0 /\ handlers' = 0
            /\ IF Innermost.kind = "task"
                 THEN stack' = 0 /\ frames' = <<>>
                 ELSE UNCHANGED <<stack, frames>>
  /\ UNCHANGED <<error, calls, db, cut>>

Instruction ==
  \/ Push \/ Pop \/ InstructionFails
  \/ BeginTransaction \/ BeginContended \/ EndTransaction
  \/ PushHandler \/ PopHandler
  \/ \E n \in 0 .. MaxArgs : Call(n) \/ EffectInvoke(n)
  \/ Return
  \/ IterNext \/ IterNextThrows
  \/ WithTx \/ WithTxThrows \/ WithTxRefused

NestedRunEnds ==
  \/ IteratorReturns \/ IteratorEnds \/ IteratorCallsAgain
  \/ FilterThrows \/ PopThrows \/ IteratorFails
  \/ WithTxReturns \/ CommitFails \/ WithTxFails \/ InvokeAnswersNothing
  \/ Ends

Next == Instruction \/ NestedRunEnds

(* The C++ code goes on; Aura code may run forever. *)
Spec == Init /\ [][Next]_vars /\ WF_vars(NestedRunEnds)

-----------------------------------------------------------------------------
(* Properties. *)

(* The types and the limits of the two stacks. *)
CallStackTypeOK ==
  /\ stack \in 0 .. StackMax
  /\ Len(frames) <= FramesMax
  /\ txns \in 0 .. MaxTxns /\ handlers \in 0 .. MaxHandlers
  /\ error \in BOOLEAN /\ cut \in BOOLEAN
  /\ mode \in {"run", "success", "failure", "over"}
  /\ calls # <<>>
  /\ dbTxn \in {"auto", "open", "committed", "rolledBack"}
  /\ callback \in {"none", "running", "returned", "failed"}

(* Frames lie on top of each other: none begins below the one that called  *)
(* it, in any of the three stacks, nor above what is there.  A Return      *)
(* therefore never cuts into its caller.                                   *)
WellNested ==
  /\ mode # "over" =>
       \A i \in 1 .. Depth : /\ 1 <= frames[i].stackBase /\ frames[i].stackBase <= stack
                            /\ frames[i].transactionBase <= txns
                            /\ frames[i].handlerBase <= handlers
  /\ \A i \in 1 .. Depth - 1 :
       /\ frames[i].stackBase < frames[i + 1].stackBase
       /\ frames[i].transactionBase <= frames[i + 1].transactionBase
       /\ frames[i].handlerBase <= frames[i + 1].handlerBase

(* While Aura code runs, everything that the C++ callers below it have     *)
(* saved is still there, unless a callback has failed without a message.   *)
CallersIntact ==
  Running /\ ~cut =>
    \A i \in 1 .. Len(calls) :
      /\ calls[i].entryFrameCount <= Depth
      /\ calls[i].stackBase < stack
      /\ calls[i].transactionBase <= txns
      /\ calls[i].handlerBase <= handlers

(* Whatever ends a frame (a return, the failure of a callback, an error)   *)
(* ends the transactions and the handlers that were begun in it.           *)
FramesTakeTheirOwn ==
  [][Len(frames') < Depth =>
       /\ txns' <= frames[Len(frames') + 1].transactionBase
       /\ handlers' <= frames[Len(frames') + 1].handlerBase]_vars

(* A program that is over holds no transaction, that is no mutex, and no   *)
(* handler.                                                                *)
NothingLeftActive == mode = "over" => txns = 0 /\ handlers = 0

(* Outside with_tx the connection is in a transaction only after the       *)
(* exception of a full stack has passed through with_tx, which had begun   *)
(* the transaction and could not call back.  No Aura code runs with it:    *)
(* the error ends the program, or an enclosing with_tx rolls back; but a   *)
(* program that is over may leave its connection in the transaction.       *)
NoStrayDbTransaction ==
  dbTxn = "open" =>
    \/ \E i \in 1 .. Len(calls) : calls[i].kind = "withTx"
    \/ mode \in {"failure", "over"} /\ error /\ callback = "none"

(* A failure is passed on through all callers until the program is over. *)
FailuresEnd == mode = "failure" /\ error ~> mode = "over"

(* The documentation of with_tx: when the callback fails, with_tx has      *)
(* rolled the transaction back before the program goes on.                 *)
FailedCallbackRollsBack ==
  callback = "failed" /\ Innermost.kind # "withTx" => dbTxn = "rolledBack"
=============================================================================
