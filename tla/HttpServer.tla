----------------------------- MODULE HttpServer -----------------------------
(***************************************************************************)
(* serve_once, serve_n, listen_and_serve and listen_and_serve_with         *)
(* (stdlib/http) on top of Contexts.  One caller becomes the server: it    *)
(* accepts connections, starts a worker thread for each, and leaves its    *)
(* loop at the limit, on an error of the listener, or when the shutdown    *)
(* context is cancelled, which it asks for through IsContextCancelled like *)
(* everybody else.  It returns after it has closed the listener and joined *)
(* the workers; on the error path the destructor of activeRequests does.   *)
(***************************************************************************)
EXTENDS Contexts, Integers

CONSTANTS
  Server,    \* the caller that serves
  Clients,   \* each connects at most once
  Limits,    \* values of maxRequests to try
  MaxWhileServing   \* bound on the contexts there are while the server runs

NoLimit == -1  \* std::nullopt

ASSUME ServerAssumption ==
  /\ Server \in Callers /\ Limits \subseteq Nat /\ MaxWhileServing \in Nat

VARIABLES
  stage,        \* where ServeWithRequestLimit is
  shutdown,     \* options.shutdownContext
  maxRequests,  \* options.maxRequests
  listening,    \* the listener is open
  failed,       \* HasError() of the server's context
  served,       \* served
  active,       \* activeRequests
  conn          \* what has become of the connection of each client

httpVars == <<stage, shutdown, maxRequests, listening, failed, served, active, conn>>
serverVars == <<vars, httpVars>>

HttpInit ==
  /\ Init
  /\ stage = "off" /\ shutdown = NoContext /\ maxRequests = NoLimit
  /\ listening = FALSE /\ failed = FALSE
  /\ served = 0 /\ active = {}
  /\ conn = [k \in Clients |-> "away"]

Queued == {k \in Clients : conn[k] = "queued"}
Becomes(k, state) == conn' = [conn EXCEPT ![k] = state]

-----------------------------------------------------------------------------
(* The server thread. *)

(* The listener is bound, or the address is bad or in use. *)
OpenListener ==
  \/ stage' = "loop" /\ listening' = TRUE /\ UNCHANGED failed
  \/ stage' = "returned" /\ failed' = TRUE /\ UNCHANGED listening

(* Only listen_and_serve_with chooses the context, and it has no limit. *)
Serve(d, n) ==
  /\ stage = "off" /\ pc[Server] = "idle"
  /\ d \in Known /\ (n # NoLimit => d = background)
  /\ nextContextId <= MaxWhileServing + 1
  /\ OpenListener
  /\ shutdown' = d /\ maxRequests' = n
  /\ UNCHANGED <<vars, served, active, conn>>

JoinFinishedRequests ==
  /\ stage = "loop"
  /\ IF maxRequests # NoLimit /\ served >= maxRequests
       THEN stage' = "close" /\ UNCHANGED active
       ELSE stage' = "check" /\ active' = {k \in active : conn[k] # "completed"}
  /\ UNCHANGED <<vars, shutdown, maxRequests, listening, failed, served, conn>>

(* The three places that call IsContextCancelled: at the head of the loop, *)
(* before each select, and when NextConnection came back without one.      *)
ServerAsks ==
  /\ stage \in {"check", "await", "again"}
  /\ LookUp(Server, shutdown)
  /\ UNCHANGED httpVars

(* Faulty variant: the wait for connections does not look at the context. *)
StageAfterDeaf(isCancelled) ==
  CASE stage = "check" -> IF isCancelled THEN "close" ELSE "await"
    [] stage = "await" -> "select"
    [] stage = "again" -> IF isCancelled \/ failed THEN "close" ELSE "loop"

StageAfter(isCancelled) ==
  CASE stage = "check" -> IF isCancelled THEN "close" ELSE "await"
    [] stage = "await" -> IF isCancelled THEN "again" ELSE "select"
    [] stage = "again" -> IF isCancelled \/ failed THEN "close" ELSE "loop"

ServerReads ==
  /\ stage \in {"check", "await", "again"}
  /\ ReadFlag(Server)
  /\ stage' = StageAfter(Reports(shutdown))
  /\ UNCHANGED <<shutdown, maxRequests, listening, failed, served, active, conn>>

(* A connection is there, or nothing within 200 ms, or an error. *)
Select ==
  /\ stage = "select"
  /\ \/ Queued # {} /\ stage' = "accept" /\ UNCHANGED failed
     \/ stage' = "await" /\ UNCHANGED failed
     \/ stage' = "again" /\ failed' = TRUE
  /\ UNCHANGED <<vars, shutdown, maxRequests, listening, served, active, conn>>

(* An interrupted accept is no error. *)
AcceptFails ==
  /\ stage = "accept"
  /\ stage' = "again"
  /\ failed' \in BOOLEAN
  /\ UNCHANGED <<vars, shutdown, maxRequests, listening, served, active, conn>>

AcceptConnection(k) ==
  /\ stage = "accept" /\ k \in Queued
  /\ stage' = "loop"
  /\ active' = active \cup {k} /\ served' = served + 1
  /\ Becomes(k, "reading")
  /\ UNCHANGED <<vars, shutdown, maxRequests, listening, failed>>

(* What is still in the backlog is reset. *)
CloseListener ==
  /\ stage = "close"
  /\ stage' = "join"
  /\ listening' = FALSE
  /\ conn' = [k \in Clients |-> IF k \in Queued THEN "reset" ELSE conn[k]]
  /\ UNCHANGED <<vars, shutdown, maxRequests, failed, served, active>>

(* Faulty variant: the workers are left to themselves. *)
JoinNobody ==
  /\ stage = "join"
  /\ stage' = "returned" /\ active' = {}
  /\ UNCHANGED <<vars, shutdown, maxRequests, listening, failed, served, conn>>

JoinRequests ==
  /\ stage = "join"
  /\ \A k \in active : conn[k] = "completed"
  /\ stage' = "returned" /\ active' = {}
  /\ UNCHANGED <<vars, shutdown, maxRequests, listening, failed, served, conn>>

ServerStep ==
  \/ JoinFinishedRequests \/ ServerReads \/ Select
  \/ AcceptFails \/ \E k \in Clients : AcceptConnection(k)
  \/ CloseListener \/ JoinRequests

-----------------------------------------------------------------------------
(* Clients and the worker threads. *)

Connect(k) ==
  /\ listening /\ conn[k] = "away"
  /\ Becomes(k, "queued")
  /\ UNCHANGED <<vars, stage, shutdown, maxRequests, listening, failed, served, active>>

(* How the reading ends (it fails on a timeout, an error, an unusable      *)
(* length or a request of more than a megabyte), and whether the parts of  *)
(* what was read make a request.                                           *)
ReadRequestFromSocket == {"whole", "closed early", "failed"}
ParseRequestParts == BOOLEAN

(* For a peer that closes early the route is called with empty fields. *)
ReadParsedRequest(k) ==
  /\ conn[k] = "reading"
  /\ \E read \in ReadRequestFromSocket, parsed \in ParseRequestParts :
       Becomes(k, IF read = "closed early" \/ (read = "whole" /\ parsed) THEN "routing" ELSE "ending")

(* The route answers a string, or fails, or answers something else. *)
InvokeRoute(k) == conn[k] = "routing" /\ \E next \in {"writing", "ending"} : Becomes(k, next)

(* The response is written and the peer's input is drained, or it is not;  *)
(* either way the connection is closed, and then the worker is done.       *)
WriteResponse(k) == conn[k] = "writing" /\ Becomes(k, "ending")
Complete(k) == conn[k] = "ending" /\ Becomes(k, "completed")

WorkerStep(k) ==
  /\ \/ ReadParsedRequest(k) \/ InvokeRoute(k) \/ WriteResponse(k) \/ Complete(k)
  /\ UNCHANGED <<vars, stage, shutdown, maxRequests, listening, failed, served, active>>

(* The server thread uses contexts for itself before it serves. *)
OtherCallerStep(c) ==
  /\ c = Server => stage = "off"
  /\ CallerStep(c)
  /\ stage # "off" => nextContextId' <= MaxWhileServing + 1
  /\ UNCHANGED httpVars

HttpNext ==
  \/ \E d \in Ids, n \in Limits \cup {NoLimit} : Serve(d, n)
  \/ ServerAsks \/ ServerStep
  \/ \E k \in Clients : Connect(k) \/ WorkerStep(k)
  \/ \E c \in Callers : OtherCallerStep(c)
  \/ Signal /\ UNCHANGED httpVars

(* The threads of the server go on: reads and writes have timeouts, routes *)
(* return, peers stop sending.  Whoever holds m_contextMutex releases it,  *)
(* and the server gets it some time.                                       *)
Release(c) ==
  /\ CancelReturns(c) \/ \E d \in Ids : CancelVisits(c, d)
  /\ UNCHANGED httpVars

HttpFairness ==
  /\ WF_serverVars(ServerStep) /\ SF_serverVars(ServerAsks)
  /\ \A k \in Clients : WF_serverVars(WorkerStep(k))
  /\ \A c \in Callers : WF_serverVars(Release(c))

HttpSpec == HttpInit /\ [][HttpNext]_serverVars /\ HttpFairness

-----------------------------------------------------------------------------
(* Properties. *)

(* Graceful shutdown: once the context of the server, or one it inherits   *)
(* from, is cancelled or the signal comes, serving ends, wherever the      *)
(* accept loop is and however many clients are queued or half served.      *)
ShutdownEndsServing ==
  (stage \notin {"off", "returned"} /\ Reports(shutdown)) ~> stage = "returned"

(* Serving returns with nothing in progress: the port is closed, every     *)
(* connection that was accepted has been served and closed, and serve_n    *)
(* without error or cancellation has accepted exactly as many as it was    *)
(* told.                                                                   *)
ServedInFull ==
  stage = "returned" =>
    /\ ~listening
    /\ \A k \in Clients : conn[k] \in {"away", "reset", "completed"}
    /\ served = Cardinality({k \in Clients : conn[k] = "completed"})
    /\ ~failed /\ ~Reports(shutdown) => served = maxRequests
=============================================================================
