-------------------------- MODULE HttpServerProofs --------------------------
(***************************************************************************)
(* Cancellation reaches every context below, however cancellations,        *)
(* creations and signals interleave, and the HTTP server returns with its  *)
(* work done, for any number of threads, contexts and clients.             *)
(***************************************************************************)
EXTENDS HttpServer, FiniteSetTheorems, TLAPS

(* The contexts form a tree, kept both as parents and as children; new     *)
(* contexts hang below older ones.                                         *)
Tree ==
  /\ \A d \in Ids : /\ parent[d] # NoContext => /\ parent[d] \in Known /\ d \in Known
                                              /\ parent[d] < d
                    /\ children[d] = {e \in Ids : parent[e] = d}

(* Only the holder of m_contextMutex is inside CancelContext, and the work *)
(* list is empty when nobody is.                                           *)
MutexHeld ==
  /\ \A c \in Callers : pc[c] = "cancel" <=> holder = c
  /\ holder = Nobody => pending = {}

(* Who is between the two halves of ShutdownContext has its parent. *)
ParentMade == \A c \in Callers : pc[c] = "shutdown" => background \in Known

(* The background context is not signal aware, so that a shutdown context  *)
(* is a shutdown root; all others take the flag from their parent.         *)
AwareBelow ==
  /\ background \notin signalAware
  /\ \A d \in Known : parent[d] # NoContext /\ parent[d] \in signalAware => d \in signalAware

(* A context below a cancelled one is cancelled, or still on the work list *)
(* of a cancellation in progress.                                          *)
CancelledBelow ==
  \A d \in Known \ ShutdownRoots :
    parent[d] # NoContext /\ parent[d] \in cancelled => d \in cancelled \cup pending

(* What was reported stays so, and a call that must find its context       *)
(* cancelled will.                                                         *)
ReportsKept ==
  /\ \A d \in seen : Reports(d)
  /\ \A c \in Callers : due[c] => Reports(arg[c])

ContextInv ==
  /\ ContextsTypeOK /\ Tree /\ MutexHeld /\ ParentMade /\ AwareBelow
  /\ CancelledBelow /\ ReportsKept

-----------------------------------------------------------------------------
(* Between cancellations the inheritance holds, by the invariant. *)
LEMMA ReachesChildren == ContextInv => CancellationReachesChildren
<1> SUFFICES ASSUME ContextInv, holder = Nobody, NEW d \in Known \ ShutdownRoots,
                    parent[d] # NoContext, Reports(parent[d])
             PROVE  Reports(d)
  BY DEF CancellationReachesChildren
<1>1. CASE parent[d] \in cancelled
  BY <1>1 DEF ContextInv, CancelledBelow, MutexHeld, Reports
<1>2. CASE parent[d] \in signalAware /\ signalSeen
  BY <1>2 DEF ContextInv, AwareBelow, Reports
<1> QED
  BY <1>1, <1>2 DEF Reports

(* And so along any path: the contexts whose report implies that of d are  *)
(* a set that inherits.                                                    *)
LEMMA ReachesBelow ==
  ASSUME ContextInv, holder = Nobody, NEW d \in Known, NEW e \in Above(d), Reports(e)
  PROVE  Reports(d)
<1> DEFINE ds == {x \in Known : Reports(x) => Reports(d)}
<1>1. d \in ds /\ ds \in SUBSET Known
  OBVIOUS
<1>2. Inherits(ds)
  <2> SUFFICES ASSUME NEW x \in ds \ ShutdownRoots, parent[x] # NoContext
               PROVE  parent[x] \in ds
    BY DEF Inherits
  <2>1. x \in Ids
    BY ContextsAssumption DEF ContextInv, ContextsTypeOK, Known, Ids
  <2>2. parent[x] \in Known
    BY <2>1 DEF ContextInv, Tree
  <2>3. Reports(parent[x]) => Reports(x)
    BY ReachesChildren DEF CancellationReachesChildren
  <2> QED
    BY <2>2, <2>3
<1>3. e \in ds
  BY <1>1, <1>2 DEF Above
<1> QED
  BY <1>3

(* No step takes a report back. *)
LEMMA ReportsGrow ==
  ASSUME [Next]_vars
  PROVE  /\ cancelled \subseteq cancelled' /\ signalAware \subseteq signalAware'
         /\ signalSeen => signalSeen'
<1>1. CASE UNCHANGED vars
  BY <1>1 DEF vars, treeVars
<1>2. CASE Signal
  BY <1>2 DEF Signal, treeVars
<1>3. ASSUME NEW c \in Callers, CallerStep(c)
      PROVE  /\ cancelled \subseteq cancelled' /\ signalAware \subseteq signalAware'
             /\ signalSeen => signalSeen'
  BY <1>3 DEF CallerStep, BackgroundContext, ShutdownContext, ShutdownCreates, CreateChildContext,
              CancelContext, CancelVisits, LookUp, CancelReturns, ReadFlag, treeVars
<1> QED
  BY <1>1, <1>2, <1>3 DEF Next

(* The same, as it is used. *)
LEMMA ReportStays ==
  ASSUME [Next]_vars, NEW d, Reports(d)
  PROVE  Reports(d)'
BY ReportsGrow DEF Reports

-----------------------------------------------------------------------------
(* Ids: the next one is fresh. *)
LEMMA FreshId ==
  ASSUME ContextInv, nextContextId <= MaxContexts
  PROVE  /\ nextContextId \in Ids /\ nextContextId \notin Known /\ Known \subseteq Ids
         /\ NoContext \notin Ids /\ nextContextId \in Nat /\ nextContextId # NoContext
         /\ nextContextId + 1 \in 1 .. MaxContexts + 1
         /\ 1 .. nextContextId + 1 - 1 = Known \cup {nextContextId}
         /\ parent[nextContextId] = NoContext
         /\ \A d \in Ids : parent[d] # nextContextId
         /\ \A d \in Known : d < nextContextId
<1>1. nextContextId \in 1 .. MaxContexts + 1 /\ MaxContexts \in Nat
  BY ContextsAssumption DEF ContextInv, ContextsTypeOK
<1>2. /\ nextContextId \in Ids /\ nextContextId \notin Known /\ Known \subseteq Ids
      /\ NoContext \notin Ids /\ nextContextId \in Nat /\ nextContextId # NoContext
      /\ nextContextId + 1 \in 1 .. MaxContexts + 1
      /\ \A d \in Known : d < nextContextId
  BY <1>1 DEF Ids, Known, NoContext
<1>3. 1 .. nextContextId + 1 - 1 = Known \cup {nextContextId}
  BY <1>1 DEF Known
<1>4. parent[nextContextId] = NoContext /\ \A d \in Ids : parent[d] # nextContextId
  BY <1>2 DEF ContextInv, Tree
<1> QED
  BY <1>2, <1>3, <1>4

(* The shutdown roots among the known contexts stay what they are when a   *)
(* context is added.                                                       *)
LEMMA RootsStay ==
  ASSUME ContextInv, NEW n, n \in Ids, n \notin Known, NEW p, NEW d \in Known,
         parent' = [parent EXCEPT ![n] = p],
         signalAware' \in {signalAware, signalAware \cup {n}}, Known' = Known \cup {n},
         \A e \in Ids : parent[e] # n,
         d \notin ShutdownRoots'
  PROVE  d \notin ShutdownRoots
<1>1. d # n /\ d \in Ids /\ d \in Known'
  BY ContextsAssumption DEF ContextInv, ContextsTypeOK, Known, Ids
<1>2. parent'[d] = parent[d]
  BY <1>1 DEF ContextInv, ContextsTypeOK
<1>3. d \in signalAware' <=> d \in signalAware
  BY <1>1
<1>4. parent[d] # n
  BY <1>1
<1>5. parent[d] \in signalAware' <=> parent[d] \in signalAware
  BY <1>4
<1> QED
  BY <1>1, <1>2, <1>3, <1>5 DEF ShutdownRoots

(* A new context n below p keeps the invariant: it takes the flags of its  *)
(* parent, or it is a shutdown root.                                       *)
LEMMA NewContext ==
  ASSUME ContextInv, nextContextId <= MaxContexts, NEW n, n = nextContextId,
         NEW p \in Known, holder = Nobody,
         nextContextId' = n + 1,
         parent' = [parent EXCEPT ![n] = p],
         children' = [children EXCEPT ![p] = @ \cup {n}],
         cancelled' \in {cancelled, cancelled \cup {n}},
         signalAware' \in {signalAware, signalAware \cup {n}},
         p \in signalAware => n \in signalAware',
         \/ p \in cancelled => n \in cancelled'
         \/ n \in signalAware' /\ p \notin signalAware,
         background' = background, installed' = installed, signalSeen' = signalSeen,
         holder' = holder, pending' = pending, arg' = arg, seen' = seen, due' = due,
         pc' \in [Callers -> {"idle", "shutdown", "cancel", "read"}],
         \A c \in Callers : \/ pc'[c] = pc[c]
                            \/ pc[c] # "cancel" /\ pc'[c] = "idle"
  PROVE  ContextInv'
<1>1. /\ n \in Ids /\ n \notin Known /\ Known \subseteq Ids /\ NoContext \notin Ids /\ n \in Nat
      /\ n + 1 \in 1 .. MaxContexts + 1 /\ Known' = Known \cup {n} /\ n # NoContext
      /\ parent[n] = NoContext /\ p # n /\ p \in Ids /\ p # NoContext /\ p < n
      /\ \A d \in Ids : parent[d] # n
      /\ \A d \in Known : d < n
  BY FreshId DEF Known
<1>2. /\ parent \in [Ids -> {NoContext} \cup Ids] /\ children \in [Ids -> SUBSET Ids]
      /\ cancelled \subseteq Known /\ signalAware \subseteq Known
      /\ background \in {NoContext} \cup Known
  BY DEF ContextInv, ContextsTypeOK
<1>3. ContextsTypeOK'
  <2>1. parent' \in [Ids -> {NoContext} \cup Ids] /\ children' \in [Ids -> SUBSET Ids]
    BY <1>1, <1>2
  <2>2. /\ cancelled' \subseteq Known' /\ signalAware' \subseteq Known'
        /\ background' \in {NoContext} \cup Known'
    BY <1>1, <1>2
  <2>3. pending' \subseteq Known' /\ seen' \subseteq Known'
    BY <1>1 DEF ContextInv, ContextsTypeOK
  <2> QED
    BY <2>1, <2>2, <2>3, <1>1 DEF ContextInv, ContextsTypeOK
<1>p. parent'[n] = p /\ \A d \in Ids \ {n} : parent'[d] = parent[d]
  BY <1>1, <1>2
<1>c. children'[p] = children[p] \cup {n} /\ \A d \in Ids \ {p} : children'[d] = children[d]
  BY <1>1, <1>2
<1>4. Tree'
  <2> SUFFICES ASSUME NEW d \in Ids
               PROVE  /\ parent'[d] # NoContext => /\ parent'[d] \in Known' /\ d \in Known'
                                                  /\ parent'[d] < d
                      /\ children'[d] = {e \in Ids : parent'[e] = d}
    BY DEF Tree
  <2>1. /\ parent[d] # NoContext => /\ parent[d] \in Known /\ d \in Known /\ parent[d] < d
        /\ children[d] = {e \in Ids : parent[e] = d}
    BY DEF ContextInv, Tree
  <2>2. parent'[d] # NoContext => parent'[d] \in Known' /\ d \in Known' /\ parent'[d] < d
    BY <2>1, <1>1, <1>p
  <2>3. children'[d] = {e \in Ids : parent'[e] = d}
    <3>1. CASE d = p
      BY <3>1, <2>1, <1>1, <1>p, <1>c
    <3>2. CASE d # p
      <4>1. \A e \in Ids : parent'[e] = d <=> parent[e] = d
        BY <3>2, <1>1, <1>p
      <4> QED
        BY <4>1, <3>2, <2>1, <1>c
    <3> QED
      BY <3>1, <3>2
  <2> QED
    BY <2>2, <2>3
<1>5. MutexHeld'
  BY ContextsAssumption DEF ContextInv, MutexHeld, Nobody
<1>6. ParentMade'
  <2>1. \A c \in Callers : pc'[c] = "shutdown" => pc[c] = "shutdown"
    OBVIOUS
  <2> QED
    BY <2>1, <1>1 DEF ContextInv, ParentMade
<1>7. AwareBelow'
  <2>1. background' \notin signalAware'
    BY <1>1, <1>2 DEF ContextInv, AwareBelow
  <2>2. ASSUME NEW d \in Known', parent'[d] # NoContext, parent'[d] \in signalAware'
        PROVE  d \in signalAware'
    <3>1. CASE d = n
      BY <3>1, <2>2, <1>1, <1>p
    <3>2. CASE d # n
      <4>1. d \in Known /\ d \in Ids /\ parent'[d] = parent[d] /\ parent[d] # n
        BY <3>2, <1>1, <1>p
      <4>2. parent[d] \in signalAware /\ parent[d] # NoContext
        BY <4>1, <2>2
      <4> QED
        BY <4>1, <4>2 DEF ContextInv, AwareBelow
    <3> QED
      BY <3>1, <3>2
  <2> QED
    BY <2>1, <2>2 DEF AwareBelow
<1>8. CancelledBelow'
  <2> SUFFICES ASSUME NEW d \in Known', d \notin ShutdownRoots',
                      parent'[d] # NoContext, parent'[d] \in cancelled'
               PROVE  d \in cancelled' \cup pending'
    BY DEF CancelledBelow
  <2>1. CASE d = n
    <3>1. parent'[d] = p
      BY <2>1, <1>p
    <3>2. p \in cancelled
      BY <3>1, <1>1
    <3>3. n \in signalAware' /\ p \notin signalAware => d \in ShutdownRoots'
      BY <3>1, <2>1, <1>1 DEF ShutdownRoots
    <3> QED
      BY <3>2, <3>3, <2>1
  <2>2. CASE d # n
    <3>1. d \in Known /\ d \in Ids /\ parent'[d] = parent[d] /\ parent[d] # n
      BY <2>2, <1>1, <1>p
    <3>2. parent[d] \in cancelled /\ parent[d] # NoContext
      BY <3>1
    <3>3. d \notin ShutdownRoots
      BY <3>1, <1>1, RootsStay
    <3> QED
      BY <3>1, <3>2, <3>3 DEF ContextInv, CancelledBelow
  <2> QED
    BY <2>1, <2>2
<1>9. ReportsKept'
  BY DEF ContextInv, ReportsKept, Reports
<1> QED
  BY <1>3, <1>4, <1>5, <1>6, <1>7, <1>8, <1>9 DEF ContextInv

(* BackgroundContext, alone or as the first half of ShutdownContext. *)
LEMMA BackgroundStep ==
  ASSUME ContextInv, holder = Nobody, Background,
         parent' = parent, children' = children, signalAware' = signalAware,
         cancelled' = cancelled, signalSeen' = signalSeen, installed' \in BOOLEAN,
         holder' = holder, pending' = pending, arg' = arg, seen' = seen, due' = due,
         pc' \in [Callers -> {"idle", "shutdown", "cancel", "read"}],
         \A c \in Callers : \/ pc'[c] = pc[c]
                            \/ pc[c] # "cancel" /\ pc'[c] = "shutdown"
  PROVE  ContextInv'
<1>1. /\ parent \in [Ids -> {NoContext} \cup Ids] /\ Known \subseteq Known'
      /\ nextContextId' \in 1 .. MaxContexts + 1
      /\ background' \in Known' /\ background' \notin signalAware
      /\ \A d \in Known' \ Known : parent[d] = NoContext
  <2>0. /\ parent \in [Ids -> {NoContext} \cup Ids] /\ nextContextId \in 1 .. MaxContexts + 1
        /\ background \in {NoContext} \cup Known /\ signalAware \subseteq Known
    BY DEF ContextInv, ContextsTypeOK
  <2>1. CASE background = NoContext
    <3>1. nextContextId <= MaxContexts /\ background' = nextContextId
          /\ nextContextId' = nextContextId + 1
      BY <2>1 DEF Background
    <3>2. Known' = Known \cup {nextContextId} /\ nextContextId \notin Known
          /\ parent[nextContextId] = NoContext /\ nextContextId + 1 \in 1 .. MaxContexts + 1
      BY <3>1, FreshId DEF Known
    <3> QED
      BY <2>0, <3>1, <3>2
  <2>2. CASE background # NoContext
    <3>1. background' = background /\ nextContextId' = nextContextId
      BY <2>2 DEF Background
    <3>2. Known' = Known
      BY <3>1 DEF Known
    <3> QED
      BY <2>0, <2>2, <3>1, <3>2 DEF ContextInv, AwareBelow
  <2> QED
    BY <2>1, <2>2
<1>2. ContextsTypeOK'
  BY <1>1 DEF ContextInv, ContextsTypeOK
<1>3. Tree'
  BY <1>1 DEF ContextInv, Tree
<1>4. MutexHeld' /\ ParentMade'
  BY <1>1, ContextsAssumption DEF ContextInv, MutexHeld, Nobody, ParentMade
<1>5. AwareBelow'
  BY <1>1 DEF ContextInv, AwareBelow
<1>6. CancelledBelow'
  <2> SUFFICES ASSUME NEW d \in Known', d \notin ShutdownRoots',
                      parent[d] # NoContext, parent[d] \in cancelled
               PROVE  d \in cancelled \cup pending
    BY DEF CancelledBelow
  <2>1. d \in Known
    BY <1>1
  <2>2. d \notin ShutdownRoots
    BY <2>1 DEF ShutdownRoots
  <2> QED
    BY <2>1, <2>2 DEF ContextInv, CancelledBelow
<1>7. ReportsKept'
  BY DEF ContextInv, ReportsKept, Reports
<1> QED
  BY <1>2, <1>3, <1>4, <1>5, <1>6, <1>7 DEF ContextInv

(* Steps that leave the tree alone keep what is said about it. *)
LEMMA TreeStays ==
  ASSUME ContextInv, UNCHANGED treeVars
  PROVE  /\ Known' = Known /\ ShutdownRoots' = ShutdownRoots /\ Tree' /\ AwareBelow'
         /\ nextContextId' \in 1 .. MaxContexts + 1
         /\ background' \in {NoContext} \cup Known'
         /\ parent' \in [Ids -> {NoContext} \cup Ids] /\ children' \in [Ids -> SUBSET Ids]
         /\ signalAware' \subseteq Known' /\ installed' \in BOOLEAN
         /\ background' = background
<1>1. /\ nextContextId' = nextContextId /\ background' = background /\ parent' = parent
      /\ children' = children /\ signalAware' = signalAware /\ installed' = installed
  BY DEF treeVars
<1>2. Known' = Known
  BY <1>1 DEF Known
<1>3. ShutdownRoots' = ShutdownRoots
  BY <1>1, <1>2 DEF ShutdownRoots
<1>4. Tree'
  BY <1>1, <1>2 DEF ContextInv, Tree
<1>5. AwareBelow'
  BY <1>1, <1>2 DEF ContextInv, AwareBelow
<1> QED
  BY <1>1, <1>2, <1>3, <1>4, <1>5 DEF ContextInv, ContextsTypeOK

(* Every step of the contexts keeps their invariant. *)
LEMMA ContextStep == ContextInv /\ [Next]_vars => ContextInv'
<1> SUFFICES ASSUME ContextInv, [Next]_vars PROVE ContextInv'
  OBVIOUS
<1>t. /\ pc \in [Callers -> {"idle", "shutdown", "cancel", "read"}]
      /\ arg \in [Callers -> {NoContext} \cup Ids] /\ due \in [Callers -> BOOLEAN]
      /\ cancelled \subseteq Known /\ pending \subseteq Known /\ seen \subseteq Known
      /\ signalAware \subseteq Known
      /\ signalSeen \in BOOLEAN /\ holder \in {Nobody} \cup Callers /\ Nobody \notin Callers
      /\ nextContextId \in 1 .. MaxContexts + 1
  BY ContextsAssumption DEF ContextInv, ContextsTypeOK, Nobody
<1>k. Known \subseteq Ids /\ NoContext \notin Known
  BY <1>t, ContextsAssumption DEF Known, Ids, NoContext
<1>1. ASSUME NEW c \in Callers, BackgroundContext(c) PROVE ContextInv'
  <2>1. pc' = pc /\ installed' = installed
    BY <1>1 DEF BackgroundContext
  <2> QED
    BY <1>1, <2>1, <1>t, BackgroundStep DEF BackgroundContext, Idle, ContextInv, ContextsTypeOK
<1>2. ASSUME NEW c \in Callers, ShutdownContext(c) PROVE ContextInv'
  <2>1. pc' = [pc EXCEPT ![c] = "shutdown"] /\ installed' = TRUE /\ pc[c] = "idle"
    BY <1>2 DEF ShutdownContext, Goto, Idle
  <2>2. pc' \in [Callers -> {"idle", "shutdown", "cancel", "read"}]
    BY <2>1, <1>t
  <2>3. \A b \in Callers : pc'[b] = pc[b] \/ (pc[b] # "cancel" /\ pc'[b] = "shutdown")
    BY <2>1, <1>t
  <2> QED
    BY <1>2, <2>1, <2>2, <2>3, BackgroundStep DEF ShutdownContext, Idle
<1>3. ASSUME NEW c \in Callers, ShutdownCreates(c) PROVE ContextInv'
  <2>1. pc' = [pc EXCEPT ![c] = "idle"] /\ pc[c] = "shutdown" /\ holder = Nobody
    BY <1>3 DEF ShutdownCreates, Goto
  <2>2. pc' \in [Callers -> {"idle", "shutdown", "cancel", "read"}]
    BY <2>1, <1>t
  <2>3. \A b \in Callers : pc'[b] = pc[b] \/ (pc[b] # "cancel" /\ pc'[b] = "idle")
    BY <2>1, <1>t
  <2>4. background \in Known /\ background \notin signalAware
    BY <2>1 DEF ContextInv, ParentMade, AwareBelow
  <2>5. /\ nextContextId <= MaxContexts /\ nextContextId' = nextContextId + 1
        /\ parent' = [parent EXCEPT ![nextContextId] = background]
        /\ children' = [children EXCEPT ![background] = @ \cup {nextContextId}]
        /\ cancelled' \in {cancelled, cancelled \cup {nextContextId}}
        /\ signalAware' = signalAware \cup {nextContextId}
        /\ background' = background /\ installed' = installed /\ signalSeen' = signalSeen
        /\ holder' = holder /\ pending' = pending /\ arg' = arg /\ seen' = seen /\ due' = due
    BY <1>3 DEF ShutdownCreates
  <2>6. nextContextId \in signalAware' /\ signalAware' \in {signalAware, signalAware \cup {nextContextId}}
    BY <2>5
  <2> QED
    BY <2>1, <2>2, <2>3, <2>4, <2>5, <2>6, NewContext
<1>4. ASSUME NEW c \in Callers, NEW d \in Ids, CreateChildContext(c, d) PROVE ContextInv'
  <2>1. pc' = pc /\ holder = Nobody /\ d \in Known
    BY <1>4 DEF CreateChildContext, Idle
  <2>2. /\ nextContextId <= MaxContexts /\ nextContextId' = nextContextId + 1
        /\ parent' = [parent EXCEPT ![nextContextId] = d]
        /\ children' = [children EXCEPT ![d] = @ \cup {nextContextId}]
        /\ cancelled' = (IF d \in cancelled THEN cancelled \cup {nextContextId} ELSE cancelled)
        /\ signalAware' =
             (IF d \in signalAware THEN signalAware \cup {nextContextId} ELSE signalAware)
        /\ background' = background /\ installed' = installed /\ signalSeen' = signalSeen
        /\ holder' = holder /\ pending' = pending /\ arg' = arg /\ seen' = seen /\ due' = due
    BY <1>4 DEF CreateChildContext
  <2>3. /\ cancelled' \in {cancelled, cancelled \cup {nextContextId}}
        /\ signalAware' \in {signalAware, signalAware \cup {nextContextId}}
        /\ d \in cancelled => nextContextId \in cancelled'
        /\ d \in signalAware => nextContextId \in signalAware'
    BY <2>2
  <2> QED
    BY <2>1, <2>2, <2>3, <1>t, NewContext
<1>5. ASSUME NEW c \in Callers, NEW d \in Ids, CancelContext(c, d) PROVE ContextInv'
  <2>1. /\ pc[c] = "idle" /\ holder = Nobody /\ d \in Known /\ holder' = c /\ pending' = {d}
        /\ pc' = [pc EXCEPT ![c] = "cancel"] /\ UNCHANGED treeVars
        /\ cancelled' = cancelled /\ signalSeen' = signalSeen /\ arg' = arg /\ seen' = seen
        /\ due' = due /\ signalAware' = signalAware
    BY <1>5 DEF CancelContext, Idle, Goto, treeVars
  <2>2. ContextsTypeOK'
    BY <2>1, <1>t, TreeStays DEF ContextsTypeOK
  <2>3. MutexHeld'
    BY <2>1, <1>t DEF ContextInv, MutexHeld
  <2>4. ParentMade'
    BY <2>1, <1>t, TreeStays DEF ContextInv, ParentMade
  <2>5. CancelledBelow'
    <3>1. pending = {} /\ parent' = parent
      BY <2>1 DEF ContextInv, MutexHeld, treeVars
    <3> QED
      BY <3>1, <2>1, TreeStays DEF ContextInv, CancelledBelow
  <2>6. ReportsKept'
    BY <2>1 DEF ContextInv, ReportsKept, Reports
  <2> QED
    BY <2>1, <2>2, <2>3, <2>4, <2>5, <2>6, TreeStays DEF ContextInv
<1>6. ASSUME NEW c \in Callers, NEW d \in Ids, CancelVisits(c, d) PROVE ContextInv'
  <2>1. /\ pc[c] = "cancel" /\ d \in pending /\ cancelled' = cancelled \cup {d}
        /\ pending' = (IF d \in cancelled THEN pending \ {d} ELSE (pending \ {d}) \cup children[d])
        /\ UNCHANGED treeVars /\ signalSeen' = signalSeen /\ holder' = holder /\ pc' = pc
        /\ arg' = arg /\ seen' = seen /\ due' = due /\ parent' = parent
        /\ signalAware' = signalAware
    BY <1>6 DEF CancelVisits, treeVars
  <2>2. children[d] = {e \in Ids : parent[e] = d} /\ \A e \in Ids : parent[e] = d => e \in Known
    BY <1>k, <1>t, <2>1 DEF ContextInv, Tree
  <2>3. pending' \subseteq Known /\ cancelled' \subseteq Known
    BY <2>1, <2>2, <1>t
  <2>4. ContextsTypeOK'
    BY <2>1, <2>3, <1>t, TreeStays DEF ContextsTypeOK
  <2>5. MutexHeld'
    <3>1. holder = c
      BY <2>1 DEF ContextInv, MutexHeld
    <3> QED
      BY <3>1, <2>1, <1>t DEF ContextInv, MutexHeld
  <2>6. ParentMade'
    BY <2>1, TreeStays DEF ContextInv, ParentMade
  <2>7. CancelledBelow'
    <3> SUFFICES ASSUME NEW e \in Known, e \notin ShutdownRoots, parent[e] # NoContext,
                        parent[e] \in cancelled \cup {d}
                 PROVE  e \in cancelled' \cup pending'
      BY <2>1, TreeStays DEF CancelledBelow
    <3>1. CASE parent[e] \in cancelled
      <4>1. e \in cancelled \cup pending
        BY <3>1 DEF ContextInv, CancelledBelow
      <4> QED
        BY <4>1, <2>1
    <3>2. CASE parent[e] \notin cancelled
      <4>1. parent[e] = d /\ d \notin cancelled
        BY <3>2
      <4>2. e \in children[d]
        BY <4>1, <2>2, <1>k
      <4> QED
        BY <4>1, <4>2, <2>1
    <3> QED
      BY <3>1, <3>2
  <2>8. ReportsKept'
    BY <2>1 DEF ContextInv, ReportsKept, Reports
  <2> QED
    BY <2>1, <2>4, <2>5, <2>6, <2>7, <2>8, TreeStays DEF ContextInv
<1>7. ASSUME NEW c \in Callers, CancelReturns(c) PROVE ContextInv'
  <2>1. /\ pc[c] = "cancel" /\ pending = {} /\ holder' = Nobody /\ pending' = pending
        /\ pc' = [pc EXCEPT ![c] = "idle"] /\ UNCHANGED treeVars /\ parent' = parent
        /\ cancelled' = cancelled /\ signalSeen' = signalSeen /\ arg' = arg /\ seen' = seen
        /\ due' = due /\ signalAware' = signalAware
    BY <1>7 DEF CancelReturns, Goto, treeVars
  <2>2. ContextsTypeOK'
    BY <2>1, <1>t, TreeStays DEF ContextsTypeOK
  <2>3. MutexHeld'
    BY <2>1, <1>t DEF ContextInv, MutexHeld
  <2>4. ParentMade'
    BY <2>1, <1>t, TreeStays DEF ContextInv, ParentMade
  <2>5. CancelledBelow'
    BY <2>1, TreeStays DEF ContextInv, CancelledBelow
  <2>6. ReportsKept'
    BY <2>1 DEF ContextInv, ReportsKept, Reports
  <2> QED
    BY <2>1, <2>2, <2>3, <2>4, <2>5, <2>6, TreeStays DEF ContextInv
<1>8. ASSUME NEW c \in Callers, NEW d \in Ids, LookUp(c, d) PROVE ContextInv'
  <2>1. /\ pc[c] = "idle" /\ holder = Nobody /\ d \in Known /\ holder' = holder
        /\ pending' = pending /\ arg' = [arg EXCEPT ![c] = d]
        /\ due' = [due EXCEPT ![c] = Above(d) \cap seen # {}]
        /\ pc' = [pc EXCEPT ![c] = "read"] /\ UNCHANGED treeVars /\ parent' = parent
        /\ cancelled' = cancelled /\ signalSeen' = signalSeen /\ seen' = seen
        /\ signalAware' = signalAware
    BY <1>8 DEF LookUp, Idle, Goto, treeVars
  <2>2. ContextsTypeOK'
    <3>1. due' \in [Callers -> BOOLEAN]
      BY <2>1, <1>t
    <3>2. arg' \in [Callers -> {NoContext} \cup Ids]
      BY <2>1, <1>t
    <3> QED
      BY <2>1, <3>1, <3>2, <1>t, TreeStays DEF ContextsTypeOK
  <2>3. MutexHeld'
    BY <2>1, <1>t DEF ContextInv, MutexHeld
  <2>4. ParentMade'
    BY <2>1, <1>t, TreeStays DEF ContextInv, ParentMade
  <2>5. CancelledBelow'
    BY <2>1, TreeStays DEF ContextInv, CancelledBelow
  <2>6. ReportsKept'
    <3>1. \A e : Reports(e)' <=> Reports(e)
      BY <2>1 DEF Reports
    <3>2. Above(d) \cap seen # {} => Reports(d)
      <4> SUFFICES ASSUME NEW e \in Above(d), e \in seen PROVE Reports(d)
        OBVIOUS
      <4>1. Reports(e)
        BY DEF ContextInv, ReportsKept
      <4> QED
        BY <4>1, <2>1, ReachesBelow
    <3>3. ASSUME NEW b \in Callers, due'[b] PROVE Reports(arg'[b])
      <4>1. CASE b = c
        BY <4>1, <3>2, <3>3, <2>1, <1>t
      <4>2. CASE b # c
        BY <4>2, <3>3, <2>1, <1>t DEF ContextInv, ReportsKept
      <4> QED
        BY <4>1, <4>2
    <3>4. \A b \in Callers : due'[b] => Reports(arg[b])'
      BY <3>3, <2>1 DEF Reports
    <3> QED
      BY <3>1, <3>4, <2>1 DEF ContextInv, ReportsKept
  <2> QED
    BY <2>1, <2>2, <2>3, <2>4, <2>5, <2>6, TreeStays DEF ContextInv
<1>9. ASSUME NEW c \in Callers, ReadFlag(c) PROVE ContextInv'
  <2>1. /\ pc[c] = "read" /\ holder' = holder /\ pending' = pending
        /\ arg' = [arg EXCEPT ![c] = NoContext] /\ due' = [due EXCEPT ![c] = FALSE]
        /\ seen' = (IF Reports(arg[c]) THEN seen \cup {arg[c]} ELSE seen)
        /\ pc' = [pc EXCEPT ![c] = "idle"] /\ UNCHANGED treeVars /\ parent' = parent
        /\ cancelled' = cancelled /\ signalSeen' = signalSeen /\ signalAware' = signalAware
    BY <1>9 DEF ReadFlag, Goto, treeVars
  <2>2. ContextsTypeOK'
    <3>1. seen' \subseteq Known
      BY <2>1, <1>t DEF Reports
    <3>2. arg' \in [Callers -> {NoContext} \cup Ids] /\ due' \in [Callers -> BOOLEAN]
      BY <2>1, <1>t
    <3> QED
      BY <2>1, <3>1, <3>2, <1>t, TreeStays DEF ContextsTypeOK
  <2>3. MutexHeld'
    BY <2>1, <1>t DEF ContextInv, MutexHeld
  <2>4. ParentMade'
    BY <2>1, <1>t, TreeStays DEF ContextInv, ParentMade
  <2>5. CancelledBelow'
    BY <2>1, TreeStays DEF ContextInv, CancelledBelow
  <2>6. ReportsKept'
    <3>1. \A e : Reports(e)' <=> Reports(e)
      BY <2>1 DEF Reports
    <3>2. \A e \in seen' : Reports(e)
      BY <2>1 DEF ContextInv, ReportsKept
    <3>3. \A b \in Callers : due'[b] => Reports(arg[b])'
      <4> SUFFICES ASSUME NEW b \in Callers, due'[b] PROVE Reports(arg[b])'
        OBVIOUS
      <4>1. b # c /\ arg'[b] = arg[b] /\ due[b]
        BY <2>1, <1>t
      <4> QED
        BY <4>1, <2>1 DEF ContextInv, ReportsKept, Reports
    <3> QED
      BY <3>1, <3>2, <3>3 DEF ReportsKept
  <2> QED
    BY <2>1, <2>2, <2>3, <2>4, <2>5, <2>6, TreeStays DEF ContextInv
<1>10. ASSUME Signal \/ UNCHANGED vars PROVE ContextInv'
  <2>1. /\ signalSeen' \in BOOLEAN /\ (signalSeen => signalSeen')
        /\ UNCHANGED treeVars /\ parent' = parent /\ signalAware' = signalAware
        /\ cancelled' = cancelled /\ holder' = holder /\ pending' = pending /\ pc' = pc
        /\ arg' = arg /\ seen' = seen /\ due' = due
    BY <1>10, <1>t DEF Signal, vars, treeVars
  <2>2. ContextsTypeOK'
    BY <2>1, <1>t, TreeStays DEF ContextsTypeOK
  <2>3. MutexHeld'
    BY <2>1 DEF ContextInv, MutexHeld
  <2>4. ParentMade'
    BY <2>1, TreeStays DEF ContextInv, ParentMade
  <2>5. CancelledBelow'
    BY <2>1, TreeStays DEF ContextInv, CancelledBelow
  <2>6. ReportsKept'
    BY <2>1 DEF ContextInv, ReportsKept, Reports
  <2> QED
    BY <2>1, <2>2, <2>3, <2>4, <2>5, <2>6, TreeStays DEF ContextInv
<1> QED
  BY <1>1, <1>2, <1>3, <1>4, <1>5, <1>6, <1>7, <1>8, <1>9, <1>10 DEF Next, CallerStep

-----------------------------------------------------------------------------
(* The server. *)

Working == {"reading", "routing", "writing", "ending"}
Serving == {"loop", "check", "await", "again", "select", "accept"}
Accepted == {k \in Clients : conn[k] \in Working \cup {"completed"}}

HttpTypes ==
  /\ stage \in {"off", "close", "join", "returned"} \cup Serving
  /\ maxRequests \in Limits \cup {NoLimit}
  /\ failed \in BOOLEAN /\ listening \in BOOLEAN
  /\ served \in Nat /\ active \subseteq Clients
  /\ conn \in [Clients -> {"away", "queued", "reset", "completed"} \cup Working]

(* The port is open exactly while the loop runs; connections wait only     *)
(* there, and requests are worked on only while the server will join them. *)
Progress ==
  /\ listening <=> stage \in Serving \cup {"close"}
  /\ \A k \in Clients : conn[k] = "queued" => listening
  /\ \A k \in Clients : conn[k] \in Working => k \in active
  /\ stage \in {"off", "returned"} => active = {}
  /\ stage = "off" => Accepted = {}

(* What was accepted has been counted. *)
AllCounted == IsFiniteSet(Accepted) /\ served = Cardinality(Accepted)

(* The loop goes on below the limit and is left for a reason. *)
LeftForReason ==
  /\ stage \in Serving /\ maxRequests # NoLimit =>
       /\ served <= maxRequests
       /\ stage # "loop" => served < maxRequests
  /\ stage \in {"close", "join", "returned"} =>
       failed \/ Reports(shutdown) \/ served = maxRequests

HttpInv == HttpTypes /\ Progress /\ AllCounted /\ LeftForReason


-----------------------------------------------------------------------------
(* What the server and the clients do to the contexts is a step of the     *)
(* contexts, or none.                                                      *)
LEMMA HttpContexts ==
  ASSUME ContextInv, [HttpNext]_serverVars
  PROVE  [Next]_vars
<1>1. CASE UNCHANGED serverVars
  BY <1>1 DEF serverVars
<1>2. ASSUME NEW d \in Ids, NEW n \in Limits \cup {NoLimit}, Serve(d, n) PROVE [Next]_vars
  BY <1>2 DEF Serve
<1>3. CASE ServerAsks
  <2>1. LookUp(Server, shutdown) /\ shutdown \in Known
    BY <1>3 DEF ServerAsks, LookUp
  <2>2. shutdown \in Ids
    BY <2>1, ContextsAssumption DEF ContextInv, ContextsTypeOK, Known, Ids
  <2> QED
    BY <2>1, <2>2, ServerAssumption DEF Next, CallerStep
<1>4. CASE ServerReads
  BY <1>4, ServerAssumption DEF ServerReads, Next, CallerStep
<1>5. CASE JoinFinishedRequests \/ Select \/ AcceptFails \/ CloseListener \/ JoinRequests
  BY <1>5 DEF JoinFinishedRequests, Select, AcceptFails, CloseListener, JoinRequests
<1>6. ASSUME NEW k \in Clients, AcceptConnection(k) \/ Connect(k) \/ WorkerStep(k)
      PROVE  [Next]_vars
  BY <1>6 DEF AcceptConnection, Connect, WorkerStep
<1>7. ASSUME NEW c \in Callers, OtherCallerStep(c) PROVE [Next]_vars
  BY <1>7 DEF OtherCallerStep, Next
<1>8. CASE Signal /\ UNCHANGED httpVars
  BY <1>8 DEF Next
<1> QED
  BY <1>1, <1>2, <1>3, <1>4, <1>5, <1>6, <1>7, <1>8 DEF HttpNext, ServerStep

(* The server's steps keep the invariant. *)
LEMMA HttpStep == ContextInv /\ HttpInv /\ [HttpNext]_serverVars => HttpInv'
<1> SUFFICES ASSUME ContextInv, HttpInv, [HttpNext]_serverVars PROVE HttpInv'
  OBVIOUS
<1>r. Reports(shutdown) /\ shutdown' = shutdown => Reports(shutdown)'
  <2> SUFFICES ASSUME Reports(shutdown), shutdown' = shutdown PROVE Reports(shutdown)'
    OBVIOUS
  <2>1. /\ cancelled \subseteq cancelled' /\ signalAware \subseteq signalAware'
        /\ (signalSeen => signalSeen')
    BY HttpContexts, ReportsGrow
  <2> QED
    BY <2>1 DEF Reports
<1>t. /\ conn \in [Clients -> {"away", "queued", "reset", "completed"} \cup Working]
      /\ served \in Nat /\ active \subseteq Clients /\ failed \in BOOLEAN /\ listening \in BOOLEAN
      /\ stage \in {"off", "close", "join", "returned"} \cup Serving
      /\ maxRequests \in Limits \cup {NoLimit} /\ Limits \subseteq Nat
  BY ServerAssumption DEF HttpInv, HttpTypes
<1>1. CASE UNCHANGED httpVars
  <2>1. /\ stage' = stage /\ shutdown' = shutdown /\ maxRequests' = maxRequests
        /\ listening' = listening /\ failed' = failed /\ served' = served /\ active' = active
        /\ conn' = conn
    BY <1>1 DEF httpVars
  <2>2. Accepted' = Accepted
    BY <2>1 DEF Accepted
  <2> QED
    BY <2>1, <2>2, <1>r DEF HttpInv, HttpTypes, Progress, AllCounted, LeftForReason
<1>2. ASSUME NEW d \in Ids, NEW n \in Limits \cup {NoLimit}, Serve(d, n) PROVE HttpInv'
  <2>1. /\ stage = "off" /\ served' = served /\ active' = active /\ conn' = conn
        /\ maxRequests' = n
        /\ \/ stage' = "loop" /\ listening' = TRUE /\ failed' = failed
           \/ stage' = "returned" /\ failed' = TRUE /\ listening' = listening
    BY <1>2 DEF Serve, OpenListener
  <2>2. Accepted' = Accepted /\ Accepted = {}
    BY <2>1 DEF Accepted, HttpInv, Progress
  <2>3. served = 0
    BY <2>2, FS_EmptySet DEF HttpInv, AllCounted
  <2>4. HttpTypes'
    BY <2>1, <1>t DEF HttpTypes, Serving
  <2>5. Progress'
    BY <2>1, <2>2, <1>t DEF HttpInv, Progress, Serving
  <2>6. AllCounted'
    BY <2>1, <2>2 DEF HttpInv, AllCounted
  <2>7. LeftForReason'
    <3>1. n # NoLimit => 0 <= n
      BY <1>t
    <3> QED
      BY <3>1, <2>1, <2>3 DEF LeftForReason, Serving
  <2> QED
    BY <2>4, <2>5, <2>6, <2>7 DEF HttpInv
<1>3. CASE JoinFinishedRequests
  <2>1. /\ stage = "loop" /\ shutdown' = shutdown /\ maxRequests' = maxRequests
        /\ listening' = listening /\ failed' = failed /\ served' = served /\ conn' = conn
        /\ \/ maxRequests # NoLimit /\ served >= maxRequests /\ stage' = "close" /\ active' = active
           \/ /\ ~(maxRequests # NoLimit /\ served >= maxRequests)
              /\ stage' = "check" /\ active' = {k \in active : conn[k] # "completed"}
    BY <1>3 DEF JoinFinishedRequests
  <2>2. Accepted' = Accepted
    BY <2>1 DEF Accepted
  <2>3. HttpTypes' /\ AllCounted'
    BY <2>1, <2>2, <1>t DEF HttpInv, HttpTypes, AllCounted, Serving
  <2>4. Progress'
    BY <2>1, <2>2, <1>t DEF HttpInv, Progress, Serving, Working
  <2>5. LeftForReason'
    <3>1. maxRequests # NoLimit => maxRequests \in Nat /\ served <= maxRequests
      BY <2>1, <1>t DEF HttpInv, LeftForReason, Serving
    <3> QED
      BY <3>1, <2>1, <1>t DEF LeftForReason, Serving
  <2> QED
    BY <2>3, <2>4, <2>5 DEF HttpInv
<1>4. CASE ServerReads
  <2>1. /\ stage \in {"check", "await", "again"} /\ stage' = StageAfter(Reports(shutdown))
        /\ shutdown' = shutdown /\ maxRequests' = maxRequests
        /\ listening' = listening /\ failed' = failed /\ served' = served /\ conn' = conn
        /\ active' = active
    BY <1>4 DEF ServerReads
  <2>2. Accepted' = Accepted
    BY <2>1 DEF Accepted
  <2>3. \/ stage' \in {"await", "again", "select", "loop"}
        \/ stage' = "close" /\ (Reports(shutdown) \/ failed)
    BY <2>1 DEF StageAfter
  <2>4. HttpTypes' /\ AllCounted'
    BY <2>1, <2>2, <2>3, <1>t DEF HttpInv, HttpTypes, AllCounted, Serving
  <2>5. Progress'
    BY <2>1, <2>2, <2>3, <1>t DEF HttpInv, Progress, Serving
  <2>6. LeftForReason'
    BY <2>1, <2>3, <1>t, <1>r DEF HttpInv, LeftForReason, Serving
  <2> QED
    BY <2>4, <2>5, <2>6 DEF HttpInv
<1>5. CASE Select \/ AcceptFails
  <2>1. /\ stage \in {"select", "accept"} /\ stage' \in {"accept", "await", "again"}
        /\ failed' \in BOOLEAN
        /\ shutdown' = shutdown /\ maxRequests' = maxRequests
        /\ listening' = listening /\ served' = served /\ conn' = conn /\ active' = active
    BY <1>5, <1>t DEF Select, AcceptFails
  <2>2. Accepted' = Accepted
    BY <2>1 DEF Accepted
  <2>3. HttpTypes' /\ AllCounted'
    BY <2>1, <2>2, <1>t DEF HttpInv, HttpTypes, AllCounted, Serving
  <2>4. Progress'
    BY <2>1, <2>2, <1>t DEF HttpInv, Progress, Serving
  <2>5. LeftForReason'
    BY <2>1, <1>t DEF HttpInv, LeftForReason, Serving
  <2> QED
    BY <2>3, <2>4, <2>5 DEF HttpInv
<1>6. ASSUME NEW k \in Clients, AcceptConnection(k) PROVE HttpInv'
  <2>1. /\ stage = "accept" /\ conn[k] = "queued" /\ stage' = "loop"
        /\ active' = active \cup {k} /\ served' = served + 1
        /\ conn' = [conn EXCEPT ![k] = "reading"]
        /\ shutdown' = shutdown /\ maxRequests' = maxRequests
        /\ listening' = listening /\ failed' = failed
    BY <1>6 DEF AcceptConnection, Queued, Becomes
  <2>2. \A j \in Clients : conn'[j] = IF j = k THEN "reading" ELSE conn[j]
    BY <2>1, <1>t
  <2>3. k \notin Accepted /\ Accepted' = Accepted \cup {k}
    BY <2>1, <2>2 DEF Accepted, Working
  <2>4. HttpTypes'
    <3>1. conn' \in [Clients -> {"away", "queued", "reset", "completed"} \cup Working]
      BY <2>1, <1>t DEF Working
    <3> QED
      BY <3>1, <2>1, <1>t DEF HttpTypes, Serving
  <2>5. AllCounted'
    <3>1. IsFiniteSet(Accepted) /\ served = Cardinality(Accepted)
      BY DEF HttpInv, AllCounted
    <3>2. IsFiniteSet(Accepted \cup {k}) /\ Cardinality(Accepted \cup {k}) = Cardinality(Accepted) + 1
      BY <3>1, <2>3, FS_AddElement
    <3> QED
      BY <3>1, <3>2, <2>1, <2>3 DEF AllCounted
  <2>6. Progress'
    BY <2>1, <2>2, <2>3, <1>t DEF HttpInv, Progress, Serving, Working
  <2>7. LeftForReason'
    <3>1. maxRequests # NoLimit => maxRequests \in Nat /\ served < maxRequests
      BY <2>1, <1>t DEF HttpInv, LeftForReason, Serving
    <3> QED
      BY <3>1, <2>1, <1>t DEF LeftForReason, Serving
  <2> QED
    BY <2>4, <2>5, <2>6, <2>7 DEF HttpInv
<1>7. CASE CloseListener
  <2>1. /\ stage = "close" /\ stage' = "join" /\ listening' = FALSE
        /\ conn' = [k \in Clients |-> IF conn[k] = "queued" THEN "reset" ELSE conn[k]]
        /\ shutdown' = shutdown /\ maxRequests' = maxRequests
        /\ failed' = failed /\ served' = served /\ active' = active
    BY <1>7 DEF CloseListener, Queued
  <2>2. Accepted' = Accepted
    BY <2>1 DEF Accepted, Working
  <2>3. HttpTypes'
    <3>1. conn' \in [Clients -> {"away", "queued", "reset", "completed"} \cup Working]
      BY <2>1, <1>t
    <3> QED
      BY <3>1, <2>1, <1>t DEF HttpTypes
  <2>4. AllCounted' /\ LeftForReason'
    BY <2>1, <2>2, <1>r DEF HttpInv, AllCounted, LeftForReason, Serving
  <2>5. Progress'
    BY <2>1, <1>t DEF HttpInv, Progress, Serving, Working
  <2> QED
    BY <2>3, <2>4, <2>5 DEF HttpInv
<1>8. CASE JoinRequests
  <2>1. /\ stage = "join" /\ stage' = "returned" /\ active' = {}
        /\ \A k \in active : conn[k] = "completed"
        /\ shutdown' = shutdown /\ maxRequests' = maxRequests /\ listening' = listening
        /\ failed' = failed /\ served' = served /\ conn' = conn
    BY <1>8 DEF JoinRequests
  <2>2. Accepted' = Accepted
    BY <2>1 DEF Accepted
  <2>3. HttpTypes' /\ AllCounted' /\ LeftForReason'
    BY <2>1, <2>2, <1>t, <1>r DEF HttpInv, HttpTypes, AllCounted, LeftForReason, Serving
  <2>4. Progress'
    BY <2>1, <1>t DEF HttpInv, Progress, Serving, Working
  <2> QED
    BY <2>3, <2>4 DEF HttpInv
<1>9. ASSUME NEW k \in Clients, Connect(k) PROVE HttpInv'
  <2>1. /\ listening /\ conn[k] = "away" /\ conn' = [conn EXCEPT ![k] = "queued"]
        /\ stage' = stage /\ shutdown' = shutdown /\ maxRequests' = maxRequests
        /\ listening' = listening /\ failed' = failed /\ served' = served /\ active' = active
    BY <1>9 DEF Connect, Becomes
  <2>2. \A j \in Clients : conn'[j] = IF j = k THEN "queued" ELSE conn[j]
    BY <2>1, <1>t
  <2>3. Accepted' = Accepted
    BY <2>1, <2>2 DEF Accepted, Working
  <2>4. HttpTypes'
    BY <2>1, <1>t DEF HttpTypes
  <2>5. AllCounted' /\ LeftForReason'
    BY <2>1, <2>3, <1>r DEF HttpInv, AllCounted, LeftForReason
  <2>6. Progress'
    BY <2>1, <2>2, <2>3 DEF HttpInv, Progress, Working
  <2> QED
    BY <2>4, <2>5, <2>6 DEF HttpInv
<1>10. ASSUME NEW k \in Clients, WorkerStep(k) PROVE HttpInv'
  <2>1. PICK state \in Working \cup {"completed"} :
          conn[k] \in Working /\ conn' = [conn EXCEPT ![k] = state]
    BY <1>10 DEF WorkerStep, ReadParsedRequest, InvokeRoute, WriteResponse, Complete, Becomes,
                 Working
  <2>2. /\ stage' = stage /\ shutdown' = shutdown /\ maxRequests' = maxRequests
        /\ listening' = listening /\ failed' = failed /\ served' = served /\ active' = active
    BY <1>10 DEF WorkerStep
  <2>3. \A j \in Clients : conn'[j] = IF j = k THEN state ELSE conn[j]
    BY <2>1, <1>t
  <2>4. Accepted' = Accepted
    BY <2>1, <2>3 DEF Accepted
  <2>5. HttpTypes'
    BY <2>1, <2>2, <1>t DEF HttpTypes
  <2>6. AllCounted' /\ LeftForReason'
    BY <2>2, <2>4, <1>r DEF HttpInv, AllCounted, LeftForReason
  <2>7. Progress'
    <3>1. \A j \in Clients : conn'[j] = "queued" => conn[j] = "queued"
      BY <2>1, <2>3 DEF Working
    <3>2. \A j \in Clients : conn'[j] \in Working => conn[j] \in Working
      BY <2>1, <2>3
    <3> QED
      BY <3>1, <3>2, <2>2, <2>4 DEF HttpInv, Progress
  <2> QED
    BY <2>5, <2>6, <2>7 DEF HttpInv
<1>11. ServerAsks \/ UNCHANGED serverVars \/ (Signal /\ UNCHANGED httpVars)
         \/ (\E c \in Callers : OtherCallerStep(c)) => UNCHANGED httpVars
  BY DEF ServerAsks, serverVars, OtherCallerStep
<1> QED
  BY <1>1, <1>2, <1>3, <1>4, <1>5, <1>6, <1>7, <1>8, <1>9, <1>10, <1>11 DEF HttpNext, ServerStep

(* The two invariants of every behaviour. *)
THEOREM HttpInvariance == HttpSpec => [](ContextInv /\ HttpInv)
<1>1. HttpInit => ContextInv
  <2> SUFFICES ASSUME Init PROVE ContextInv
    BY DEF HttpInit
  <2>1. Known = {} /\ ShutdownRoots = {} /\ 1 \in 1 .. MaxContexts + 1
    BY ContextsAssumption DEF Init, Known, ShutdownRoots
  <2>2. ContextsTypeOK
    BY <2>1 DEF Init, ContextsTypeOK
  <2>3. Tree
    <3>1. \A d \in Ids : d # NoContext
      BY DEF Ids, NoContext
    <3> QED
      BY <3>1 DEF Init, Tree
  <2>4. MutexHeld /\ ParentMade
    BY ContextsAssumption DEF Init, MutexHeld, ParentMade, Nobody
  <2>5. AwareBelow /\ CancelledBelow /\ ReportsKept
    BY <2>1 DEF Init, AwareBelow, CancelledBelow, ReportsKept
  <2> QED
    BY <2>2, <2>3, <2>4, <2>5 DEF ContextInv
<1>2. HttpInit => HttpInv
  <2> SUFFICES ASSUME HttpInit PROVE HttpInv
    OBVIOUS
  <2>1. Accepted = {}
    BY DEF HttpInit, Accepted, Working
  <2>2. AllCounted
    BY <2>1, FS_EmptySet DEF HttpInit, AllCounted
  <2>3. HttpTypes
    BY DEF HttpInit, HttpTypes
  <2>4. Progress /\ LeftForReason
    BY <2>1 DEF HttpInit, Progress, LeftForReason, Serving, Working
  <2> QED
    BY <2>2, <2>3, <2>4 DEF HttpInv
<1>3. ContextInv /\ HttpInv /\ [HttpNext]_serverVars => ContextInv' /\ HttpInv'
  BY HttpContexts, ContextStep, HttpStep
<1> QED
  BY <1>1, <1>2, <1>3, PTL DEF HttpSpec

-----------------------------------------------------------------------------
(* Whenever no cancellation is in progress, a context reports cancelled if *)
(* its parent does.                                                        *)
THEOREM ReachesChildrenTheorem == HttpSpec => []CancellationReachesChildren
BY HttpInvariance, ReachesChildren, PTL

(* A context that was reported cancelled, and all that inherit from it,    *)
(* are reported cancelled by every later call of IsContextCancelled.       *)
THEOREM SettledTheorem == HttpSpec => CancellationIsSettled
<1>1. ContextInv => [\A c \in Callers : ReadFlag(c) /\ due[c] => Reports(arg[c])]_vars
  BY DEF ContextInv, ReportsKept
<1> QED
  BY <1>1, HttpInvariance, PTL DEF CancellationIsSettled

(* Serving returns with the port closed, all that was accepted served and  *)
(* closed, and, without an error or a cancellation, as many requests as    *)
(* serve_n was told.                                                       *)
THEOREM ServedInFullTheorem == HttpSpec => []ServedInFull
<1>1. HttpInv => ServedInFull
  <2> SUFFICES ASSUME HttpInv, stage = "returned" PROVE ServedInFull
    BY DEF ServedInFull
  <2>1. ~listening /\ active = {}
    BY DEF HttpInv, Progress, Serving
  <2>2. \A k \in Clients : conn[k] \notin Working /\ conn[k] # "queued"
    BY <2>1 DEF HttpInv, Progress
  <2>3. \A k \in Clients : conn[k] \in {"away", "reset", "completed"}
    BY <2>2 DEF HttpInv, HttpTypes
  <2>4. Accepted = {k \in Clients : conn[k] = "completed"}
    BY <2>2 DEF Accepted
  <2>5. served = Cardinality({k \in Clients : conn[k] = "completed"})
    BY <2>4 DEF HttpInv, AllCounted
  <2>6. ~failed /\ ~Reports(shutdown) => served = maxRequests
    BY DEF HttpInv, LeftForReason
  <2> QED
    BY <2>1, <2>3, <2>5, <2>6 DEF ServedInFull
<1> QED
  BY <1>1, HttpInvariance, PTL
=============================================================================
