------------------------------ MODULE Contexts ------------------------------
(***************************************************************************)
(* The cancellation contexts of SharedRuntimeChannels.cpp.  Contexts form  *)
(* a tree under the one background context.  CreateChildContext and        *)
(* CancelContext hold m_contextMutex from start to end; IsContextCancelled *)
(* holds it only to look the context up and reads the flag afterwards,     *)
(* while a cancellation may be half way through the tree.                  *)
(***************************************************************************)
EXTENDS Naturals, FiniteSets

CONSTANTS
  Callers,      \* OS threads that use contexts
  MaxContexts   \* bound on the context ids handed out

ASSUME ContextsAssumption == MaxContexts \in Nat /\ 0 \notin Callers

Ids == 1 .. MaxContexts
NoContext == 0
Nobody == 0

VARIABLES
  nextContextId,  \* m_nextContextId
  background,     \* m_backgroundContextId
  parent,         \* ContextState::parentId
  children,       \* ContextState::children
  cancelled,      \* ids with ContextState::cancelled
  signalAware,    \* ids with ContextState::signalAware
  installed,      \* the signal handlers are in place
  signalSeen,     \* g_shutdownSignalSeen
  holder,         \* the caller that holds m_contextMutex across steps
  pending,        \* the work list of CancelContext
  pc,             \* where the call of a caller is
  arg,            \* the context that the call is about
  seen,           \* history: the contexts reported cancelled to somebody
  due             \* history: the call must find its context cancelled

treeVars == <<nextContextId, background, parent, children, signalAware, installed>>
vars == <<treeVars, cancelled, signalSeen, holder, pending, pc, arg, seen, due>>

Known == 1 .. nextContextId - 1

(* What IsContextCancelled computes from the flags. *)
Reports(d) == d \in cancelled \/ (d \in signalAware /\ signalSeen)

Init ==
  /\ nextContextId = 1 /\ background = NoContext
  /\ parent = [d \in Ids |-> NoContext]
  /\ children = [d \in Ids |-> {}]
  /\ cancelled = {} /\ signalAware = {}
  /\ installed = FALSE /\ signalSeen = FALSE
  /\ holder = Nobody /\ pending = {}
  /\ pc = [c \in Callers |-> "idle"]
  /\ arg = [c \in Callers |-> NoContext]
  /\ seen = {}
  /\ due = [c \in Callers |-> FALSE]

Idle(c) == pc[c] = "idle" /\ holder = Nobody
Goto(c, l) == pc' = [pc EXCEPT ![c] = l]

-----------------------------------------------------------------------------

(* Creates the root on first use and hands out the same one ever after. *)
Background ==
  IF background = NoContext
    THEN /\ nextContextId <= MaxContexts
         /\ background' = nextContextId
         /\ nextContextId' = nextContextId + 1
    ELSE UNCHANGED <<background, nextContextId>>

BackgroundContext(c) ==
  /\ Idle(c)
  /\ Background
  /\ UNCHANGED <<parent, children, signalAware, installed, cancelled, signalSeen,
                 holder, pending, pc, arg, seen, due>>

(* ShutdownContext takes the mutex twice: for its parent, then for itself. *)
ShutdownContext(c) ==
  /\ Idle(c)
  /\ installed' = TRUE
  /\ Background
  /\ Goto(c, "shutdown")
  /\ UNCHANGED <<parent, children, signalAware, cancelled, signalSeen, holder,
                 pending, arg, seen, due>>

ShutdownCreates(c) ==
  /\ pc[c] = "shutdown" /\ holder = Nobody
  /\ nextContextId <= MaxContexts
  /\ nextContextId' = nextContextId + 1
  /\ parent' = [parent EXCEPT ![nextContextId] = background]
  /\ children' = [children EXCEPT ![background] = @ \cup {nextContextId}]
  /\ cancelled' = IF signalSeen THEN cancelled \cup {nextContextId} ELSE cancelled
  /\ signalAware' = signalAware \cup {nextContextId}
  /\ Goto(c, "idle")
  /\ UNCHANGED <<background, installed, signalSeen, holder, pending, arg, seen, due>>

(* Faulty variant: the child does not look at its parent's flags. *)
CreateChildBlank(c, p) ==
  /\ Idle(c) /\ p \in Known
  /\ nextContextId <= MaxContexts
  /\ nextContextId' = nextContextId + 1
  /\ parent' = [parent EXCEPT ![nextContextId] = p]
  /\ children' = [children EXCEPT ![p] = @ \cup {nextContextId}]
  /\ UNCHANGED <<background, installed, cancelled, signalAware, signalSeen, holder,
                 pending, pc, arg, seen, due>>

CreateChildContext(c, p) ==
  /\ Idle(c) /\ p \in Known
  /\ nextContextId <= MaxContexts
  /\ nextContextId' = nextContextId + 1
  /\ parent' = [parent EXCEPT ![nextContextId] = p]
  /\ children' = [children EXCEPT ![p] = @ \cup {nextContextId}]
  /\ cancelled' = IF p \in cancelled THEN cancelled \cup {nextContextId} ELSE cancelled
  /\ signalAware' =
       IF p \in signalAware THEN signalAware \cup {nextContextId} ELSE signalAware
  /\ UNCHANGED <<background, installed, signalSeen, holder, pending, pc, arg, seen, due>>

(* Faulty variant: the mutex is not kept for the traversal. *)
CancelUnlocked(c, d) ==
  /\ Idle(c) /\ d \in Known /\ pending = {}
  /\ pending' = {d}
  /\ Goto(c, "cancel")
  /\ UNCHANGED <<treeVars, cancelled, signalSeen, holder, arg, seen, due>>

CancelContext(c, d) ==
  /\ Idle(c) /\ d \in Known
  /\ holder' = c
  /\ pending' = {d}
  /\ Goto(c, "cancel")
  /\ UNCHANGED <<treeVars, cancelled, signalSeen, arg, seen, due>>

(* One turn of the loop.  The work list is filled from an unordered_set,   *)
(* so any entry may come next; an entry already marked is skipped together *)
(* with all that is below it.                                              *)
CancelVisits(c, d) ==
  /\ pc[c] = "cancel" /\ d \in pending
  /\ cancelled' = cancelled \cup {d}
  /\ pending' = IF d \in cancelled THEN pending \ {d}
                                   ELSE (pending \ {d}) \cup children[d]
  /\ UNCHANGED <<treeVars, signalSeen, holder, pc, arg, seen, due>>

CancelReturns(c) ==
  /\ pc[c] = "cancel" /\ pending = {}
  /\ holder' = Nobody
  /\ Goto(c, "idle")
  /\ UNCHANGED <<treeVars, cancelled, signalSeen, pending, arg, seen, due>>

-----------------------------------------------------------------------------

(* Contexts made by ShutdownContext: they do not copy their parent's flag. *)
ShutdownRoots ==
  {d \in Known : d \in signalAware
                   /\ (parent[d] = NoContext \/ parent[d] \notin signalAware)}

(* d and the contexts above it, up to the first shutdown root: the least   *)
(* set that holds d and, with a context, the one it inherits from.         *)
Inherits(ds) == \A e \in ds \ ShutdownRoots : parent[e] # NoContext => parent[e] \in ds

Above(d) ==
  {e \in Known : \A ds \in SUBSET Known : d \in ds /\ Inherits(ds) => e \in ds}

(* IsContextCancelled, up to the release of m_contextMutex.  `due` notes   *)
(* that d, or a context that d inherits from, has been reported cancelled  *)
(* before.                                                                 *)
LookUp(c, d) ==
  /\ Idle(c) /\ d \in Known
  /\ arg' = [arg EXCEPT ![c] = d]
  /\ due' = [due EXCEPT ![c] = Above(d) \cap seen # {}]
  /\ Goto(c, "read")
  /\ UNCHANGED <<treeVars, cancelled, signalSeen, holder, pending, seen>>

ReadFlag(c) ==
  /\ pc[c] = "read"
  /\ seen' = IF Reports(arg[c]) THEN seen \cup {arg[c]} ELSE seen
  /\ arg' = [arg EXCEPT ![c] = NoContext]
  /\ due' = [due EXCEPT ![c] = FALSE]
  /\ Goto(c, "idle")
  /\ UNCHANGED <<treeVars, cancelled, signalSeen, holder, pending>>

(* SIGINT or SIGTERM, at any moment once the handlers are installed. *)
Signal ==
  /\ installed /\ ~signalSeen
  /\ signalSeen' = TRUE
  /\ UNCHANGED <<treeVars, cancelled, holder, pending, pc, arg, seen, due>>

CallerStep(c) ==
  \/ BackgroundContext(c) \/ ShutdownContext(c) \/ ShutdownCreates(c)
  \/ \E d \in Ids : \/ CreateChildContext(c, d) \/ CancelContext(c, d)
                    \/ CancelVisits(c, d) \/ LookUp(c, d)
  \/ CancelReturns(c) \/ ReadFlag(c)

Next == (\E c \in Callers : CallerStep(c)) \/ Signal

Spec == Init /\ [][Next]_vars

-----------------------------------------------------------------------------
(* Properties. *)

ContextsTypeOK ==
  /\ nextContextId \in 1 .. MaxContexts + 1
  /\ background \in {NoContext} \cup Known
  /\ parent \in [Ids -> {NoContext} \cup Ids]
  /\ children \in [Ids -> SUBSET Ids]
  /\ cancelled \subseteq Known /\ signalAware \subseteq Known
  /\ installed \in BOOLEAN /\ signalSeen \in BOOLEAN
  /\ holder \in {Nobody} \cup Callers
  /\ pending \subseteq Known
  /\ pc \in [Callers -> {"idle", "shutdown", "cancel", "read"}]
  /\ arg \in [Callers -> {NoContext} \cup Ids]
  /\ seen \subseteq Known
  /\ due \in [Callers -> BOOLEAN]

(* Between cancellations, a context made by with_cancel reports cancelled  *)
(* whenever its parent does, because of a cancel above it, made before or  *)
(* after it was created, or because of a signal: the loop of CancelContext *)
(* may skip what is below a marked context.                                *)
CancellationReachesChildren ==
  holder = Nobody =>
    \A d \in Known \ ShutdownRoots :
      parent[d] # NoContext /\ Reports(parent[d]) => Reports(d)

(* A context that was reported cancelled, and all that inherit from it,    *)
(* answer cancelled to every call that begins later, although the flag is  *)
(* read without m_contextMutex while a traversal may be in progress.       *)
CancellationIsSettled ==
  [][\A c \in Callers : ReadFlag(c) /\ due[c] => Reports(arg[c])]_vars
=============================================================================
