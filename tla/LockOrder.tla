----------------------------- MODULE LockOrder ------------------------------
(***************************************************************************)
(* The two halves of Aura's deadlock protection together: a program is     *)
(* written one statement at a time and judged by SyncStaticAnalyzer after  *)
(* each; at any time an accepted program may be run, each thread doing the *)
(* operations written for its handle, in every interleaving, through the   *)
(* calls of std.sync (SyncModule.cpp, ExecutionContextSync.cpp) on the     *)
(* locks of SyncRuntime.  A call that raises an error ends the program.    *)
(* sync.lock answers false when the mutex is merely taken, so programs ask *)
(* again: while (not sync.lock(t, m)) {}.  sync.join registers a wait and  *)
(* answers at once.                                                        *)
(*                                                                         *)
(* A statement is [how, t, x, y]: the locking of x by t, sync.unlock(t, x) *)
(* or sync.join(t, x), or a way to reach lock and unlock calls through a   *)
(* function, a lambda, an imported module, a branch or a loop.             *)
(***************************************************************************)
EXTENDS SyncRuntime, SyncStaticAnalyzer

CONSTANTS Statements,     \* the statements programs are written from
          MaxStatements   \* bound on a program's length

ASSUME StatementsAssumption ==
    /\ Statements \subseteq [how : {"lock", "unlock", "join", "pair", "lambda", "swapped", "import", "branch", "loop"},
                             t : Threads \ {MainThread}, x : Nat, y : Nat]
    /\ MaxStatements \in Nat

VARIABLES program,   \* the statements written so far
          verdict,   \* what SyncStaticAnalyzer::Analyze says of them
          running,   \* whether the program is being run
          todo,      \* the operations each thread still has to do
          stage,     \* how far a thread is in a call of sync.lock
          error      \* the error that ended the program, or ""

lockOrderVars == <<program, verdict, running, todo, stage, error, syncVars>>
Spawned == Threads \ {MainThread}

----------------------------------------------------------------------------
(* The text of a program *)

ThreadVar(t) == Id("t" \o ToString(t))
MutexVar(m) == Id("m" \o ToString(m))
SyncCall(method, args) == Call(Member(Id("sync"), method), args)
LockOf(t, m) == While(Unary("!", SyncCall("lock", <<t, m>>)), Block(<<>>))
UnlockOf(t, m) == SyncCall("unlock", <<t, m>>)
LockBriefly(t, m) == Block(<<LockOf(t, m), UnlockOf(t, m)>>)

Resources == <<Param("thread", AutoType), Param("left", AutoType), Param("right", AutoType)>>
LockBoth == Block(<<LockOf(Id("thread"), Id("left")), LockOf(Id("thread"), Id("right"))>>)
UseBoth == Block(LockBoth.ss \o <<UnlockOf(Id("thread"), Id("right")), UnlockOf(Id("thread"), Id("left"))>>)

\* two modules with a function of the same name
Declarations ==
    << ModuleDecl(<<"samples", "helpers">>), ImportDecl(<<"std", "sync">>, "sync"),
       ExportDecl(FunctionDecl("lock_pair", Resources, Type("void"), UseBoth)),
       ModuleDecl(<<"samples", "main">>), ImportDecl(<<"samples", "helpers">>, "helpers"),
       ImportDecl(<<"std", "sync">>, "sync"),
       FunctionDecl("swapped", Resources, Type("void"),
                    Block(<<Call(Id("lock_pair"), <<Id("thread"), Id("right"), Id("left")>>)>>)),
       FunctionDecl("lock_pair", Resources, Type("void"), LockBoth),
       VarDecl("lockBoth", AutoType, FunctionExpr(Resources, LockBoth)) >>
Creations ==
    [i \in 1 .. MaxThreads - 1 |-> VarDecl(ThreadVar(i).n, AutoType, SyncCall("spawn", <<>>))] \o
    [i \in 1 .. MaxMutexes |-> VarDecl(MutexVar(i).n, AutoType, SyncCall("mutex", <<>>))]

Text(s) ==
    LET t == ThreadVar(s.t)
        both == <<t, MutexVar(s.x), MutexVar(s.y)>>
    IN  CASE s.how = "lock" -> LockOf(t, MutexVar(s.x))
          [] s.how = "unlock" -> UnlockOf(t, MutexVar(s.x))
          [] s.how = "join" -> SyncCall("join", <<t, ThreadVar(s.x)>>)
          [] s.how = "pair" -> Call(Id("lock_pair"), both)
          [] s.how = "lambda" -> Call(Id("lockBoth"), both)
          [] s.how = "swapped" -> Call(Id("swapped"), both)
          [] s.how = "import" -> Call(Member(Id("helpers"), "lock_pair"), both)
          [] s.how = "branch" -> If(Leaf("true"), LockBriefly(t, both[2]), LockBriefly(t, both[3]))
          [] s.how = "loop" -> While(Leaf("true"), LockBriefly(t, both[2]))

Endings == [i \in 1 .. MaxThreads - 1 |-> SyncCall("finish", <<ThreadVar(i)>>)]
TextOf(p) == Block(Declarations \o Creations \o [i \in DOMAIN p |-> Text(p[i])] \o Endings)

----------------------------------------------------------------------------
(* What a program does: its operations, calls replaced by what they call.  *)
(* Of a branch both sides are done, a loop's body once: each releases what *)
(* it takes.                                                               *)

Op(op, t, x) == [op |-> op, t |-> t, x |-> x]
Operations(s) ==
    LET both == <<Op("lock", s.t, s.x), Op("lock", s.t, s.y)>>
        Briefly(m) == <<Op("lock", s.t, m), Op("unlock", s.t, m)>>
    IN  CASE s.how \in {"lock", "unlock", "join"} -> <<Op(s.how, s.t, s.x)>>
          [] s.how \in {"pair", "lambda"} -> both
          [] s.how = "swapped" -> <<both[2], both[1]>>
          [] s.how = "import" -> both \o <<Op("unlock", s.t, s.y), Op("unlock", s.t, s.x)>>
          [] s.how = "branch" -> Briefly(s.x) \o Briefly(s.y)
          [] s.how = "loop" -> Briefly(s.x)
OperationsOf(p) == FlattenSeq([i \in DOMAIN p |-> Operations(p[i])])

\* what the thread of operation i has locked and not unlocked before it
HeldAt(ops, i) ==
    {m \in Mutexes : \E j \in 1 .. i - 1 :
        /\ ops[j] = Op("lock", ops[i].t, m)
        /\ \A k \in j + 1 .. i - 1 : ops[k] # Op("unlock", ops[i].t, m)}

Cyclic(edges) == \E S \in SUBSET {e[1] : e \in edges} : S # {} /\ \A m \in S : \E n \in S : <<m, n>> \in edges

\* a mutex locked twice, or unlocked by a thread that need not hold it, two
\* mutexes locked in both orders (through others too), or a cycle of joins
Hazardous(ops) ==
    LET At(op) == {i \in DOMAIN ops : ops[i].op = op}
    IN  \/ \E i \in At("lock") : ops[i].x \in HeldAt(ops, i)
        \/ \E i \in At("unlock") : ops[i].x \notin HeldAt(ops, i)
        \/ Cyclic(UNION {HeldAt(ops, i) \X {ops[i].x} : i \in At("lock")})
        \/ Cyclic({<<ops[i].t, ops[i].x>> : i \in At("join")})

\* no join is made by a thread that holds a mutex
JoinsEmptyHanded(ops) == \A i \in DOMAIN ops : ops[i].op = "join" => HeldAt(ops, i) = {}

----------------------------------------------------------------------------
(* The specification *)

LockOrderInit ==
    /\ program = <<>> /\ verdict = "" /\ running = FALSE /\ error = ""
    /\ todo = [t \in Spawned |-> <<>>]
    /\ stage = [t \in Spawned |-> "call"]
    /\ nextThreadId = MaxThreads /\ nextMutexId = MaxMutexes + 1    \* Creations
    /\ active = Threads
    /\ ownedMutexes = [t \in Threads |-> {}]
    /\ ownerThreadId = [m \in Mutexes |-> NoOwner]
    /\ waitGraph = [t \in Threads |-> {}]
    /\ syncStats = StatsOf(active, nextMutexId, waitGraph)

Write(s) ==
    /\ ~running /\ verdict = "" /\ Len(program) < MaxStatements
    /\ program' = Append(program, s)
    /\ verdict' = AnalyzeSync(TextOf(program'))
    /\ UNCHANGED <<running, todo, stage, error, syncVars>>

\* what is run is an accepted program that joins empty-handed; its text is not
\* needed any more
Run ==
    /\ ~running /\ verdict = "" /\ JoinsEmptyHanded(OperationsOf(program))
    /\ program' = <<>>
    /\ running' = TRUE
    /\ todo' = [t \in Spawned |-> SelectSeq(OperationsOf(program), LAMBDA op : op.t = t)]
    /\ UNCHANGED <<verdict, stage, error, syncVars>>

Next(t) == Head(todo[t])
HasOp(t, op) == running /\ error = "" /\ todo[t] # <<>> /\ Next(t).op = op

\* what a step does to the program: the operation is done, the call goes on
\* to another stage, or it raises
Proceed(t) ==
    /\ todo' = [todo EXCEPT ![t] = Tail(@)]
    /\ stage' = [stage EXCEPT ![t] = "call"]
    /\ UNCHANGED <<program, verdict, running, error>>
Goto(t, s) == stage' = [stage EXCEPT ![t] = s] /\ UNCHANGED <<program, verdict, running, todo, error>>
Raise(why) == error' = why /\ UNCHANGED <<program, verdict, running, todo, stage>>

\* why ExecutionContext::TryLockMutex raises before it tries.  The owner and
\* the deadlock are asked for in two calls; an owner that leaves in between
\* gives the answers of asking later, so one step stands for both.
LockRefusal(t, m) ==
    CASE ~SyncHandleExists(t) -> "unknown thread"
      [] ~MutexExists(m) -> "unknown mutex"
      [] MutexOwner(m) = t -> "self-deadlock"
      [] WouldDeadlockOnMutex(t, m) -> "deadlock"
      [] OTHER -> ""
LockChecks(t) ==
    /\ HasOp(t, "lock") /\ stage[t] = "call"
    /\ LET why == LockRefusal(t, Next(t).x) IN IF why # "" THEN Raise(why) ELSE Goto(t, "try")
    /\ UNCHANGED syncVars
LockTries(t) ==
    /\ HasOp(t, "lock") /\ stage[t] = "try"
    /\ \/ TryLockAcquires(t, Next(t).x) /\ Proceed(t)
       \/ TryLockFails(t, Next(t).x) /\ Goto(t, "recheck")
\* false, and the program asks again; but an error if the mutex is free by now
LockAnswers(t) ==
    /\ HasOp(t, "lock") /\ stage[t] = "recheck"
    /\ IF MutexOwner(Next(t).x) = NoOwner THEN Raise("lock failed") ELSE Goto(t, "call")
    /\ UNCHANGED syncVars

\* nobody but t can make t the owner or take that from it, so the questions of
\* ExecutionContext::UnlockMutex and the unlocking are one step
UnlockRefusal(t, m) ==
    CASE ~SyncHandleExists(t) -> "unknown thread"
      [] ~MutexExists(m) -> "unknown mutex"
      [] MutexOwner(m) # t -> "not owner"
      [] OTHER -> ""
Unlocks(t) ==
    /\ HasOp(t, "unlock")
    /\ LET why == UnlockRefusal(t, Next(t).x)
       IN  IF why # "" THEN Raise(why) /\ UNCHANGED syncVars ELSE UnlockMutex(t, Next(t).x) /\ Proceed(t)

\* true once the wait is registered; an error for a thread that has finished
\* and for a wait that closes a cycle
JoinRefused(t, u) ==
    ~SyncHandleExists(t) \/ ~SyncHandleExists(u) \/ WouldIntroduceCycle(waitGraph, t, u)
Joins(t) ==
    /\ HasOp(t, "join")
    /\ IF JoinRefused(t, Next(t).x) THEN Raise("join failed") ELSE Proceed(t)
    /\ IF SyncHandleExists(t) /\ SyncHandleExists(Next(t).x) THEN JoinThread(t, Next(t).x) ELSE UNCHANGED syncVars

\* sync.finish, which ends what is written for a thread
Finishes(t) ==
    /\ running /\ error = "" /\ todo[t] = <<>> /\ SyncHandleExists(t)
    /\ FinishThread(t)
    /\ UNCHANGED <<program, verdict, running, todo, stage, error>>

ThreadStep(t) ==
    LockChecks(t) \/ LockTries(t) \/ LockAnswers(t) \/ Unlocks(t) \/ Joins(t) \/ Finishes(t)

LockOrderNext == (\E s \in Statements : Write(s)) \/ Run \/ (\E t \in Spawned : ThreadStep(t))

\* every thread of a running program is scheduled again and again
LockOrderSpec ==
    /\ LockOrderInit /\ [][LockOrderNext]_lockOrderVars
    /\ \A t \in Spawned : WF_lockOrderVars(ThreadStep(t))

----------------------------------------------------------------------------
(* Properties *)

(* SyncStaticAnalyzer rejects a program exactly when what it does, with    *)
(* every call replaced by the body of what it calls, is hazardous: neither *)
(* the summaries of functions and lambdas nor their renamed parameters,    *)
(* nor names of other modules, hide an operation or invent one.            *)
JudgedAsInlined == (verdict # "") <=> Hazardous(OperationsOf(program))

\* thread t asks for a mutex that thread u has, or is to say that it waits for
\* the end of u
WaitsFor(t, u) == \/ HasOp(t, "lock") /\ ownerThreadId[Next(t).x] = u
                  \/ HasOp(t, "join") /\ Next(t).x = u /\ SyncHandleExists(u)

(* The threads of an accepted program that join empty-handed never wait    *)
(* for each other in a circle, in any interleaving.  (A join made with a   *)
(* mutex held can close one: the analyzer keeps the lock order and the     *)
(* joins in two separate graphs.)                                          *)
NoCircularWait ==
    ~Cyclic({e \in Spawned \X Spawned : WaitsFor(e[1], e[2])})

\* the edges of the wait graph that stand for a mutex still asked for
CurrentWaits ==
    [t \in Threads |-> {u \in waitGraph[t] : t \in Spawned /\ todo[t] # <<>> /\ Next(t).op = "lock"
                                            /\ ownerThreadId[Next(t).x] = u}]

(* The calls of an accepted program that joins empty-handed never raise    *)
(* because a thread locks what it has or unlocks what it has not.  They    *)
(* raise when a mutex is released between the try and the question who has *)
(* it, when the thread to be joined has finished, and for a deadlock that  *)
(* is none: every cycle that lock or join reports has an edge which is not *)
(* a current wait for a mutex, since UnlockMutex leaves the edges of those *)
(* who waited in the graph.                                                *)
AlarmsAreStale ==
    LET At(t, op) == todo[t] # <<>> /\ Next(t).op = op
    IN  /\ error \in {"", "lock failed", "join failed", "deadlock"}
        /\ error = "deadlock" =>
              \E t \in Spawned : /\ At(t, "lock") /\ WouldDeadlockOnMutex(t, Next(t).x)
                                  /\ ~WouldIntroduceCycle(CurrentWaits, t, MutexOwner(Next(t).x))
        /\ error = "join failed" =>
              \E t \in Spawned : /\ At(t, "join")
                                  /\ \/ ~SyncHandleExists(Next(t).x)
                                     \/ ~WouldIntroduceCycle(CurrentWaits, t, Next(t).x)

(* An accepted program that joins empty-handed comes to an end, if each    *)
(* thread is scheduled again and again: all threads finish, or a call      *)
(* raises.  Nobody asks for ever for a mutex that is merely taken.         *)
AcceptedProgramsEnd == running ~> (active = {MainThread} \/ error # "")

=============================================================================
