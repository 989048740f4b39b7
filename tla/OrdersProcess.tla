--------------------------- MODULE OrdersProcess ---------------------------
(***************************************************************************)
(* The process of orders-svc around its request handlers: main (set-up,    *)
(* obs.Serve, deferred closes), the HTTP server that drains on shutdown,   *)
(* and the RED middleware (pkg/obs/redmetrics.go), which counts a request  *)
(* by status when its handler returns.  What handleCreate itself does is   *)
(* added by OrderFlow, which says which requests are being served.         *)
(***************************************************************************)
EXTENDS Naturals, FiniteSets

CONSTANT Order   \* requests POST /orders

ASSUME OrderAssumption == IsFiniteSet(Order)

VARIABLES
  main,       \* the main goroutine
  cancelled,  \* the context of signal.NotifyContext is done
  counted,    \* counted[c]: orders_http_requests_total with code c
  accepted    \* history: the requests this process has accepted

processVars == <<main, cancelled, counted, accepted>>

Answer == {"200 created", "400 bad request", "402 declined", "502 unavailable"}

Starting == {"tracing", "connect"}
Gone == main = "down"
NothingCounted == [c \in Answer |-> 0]

ProcessInit ==
  /\ main = "tracing" /\ cancelled = FALSE
  /\ counted = NothingCounted /\ accepted = {}

-----------------------------------------------------------------------------
(* main *)

MainStep(from, to) ==
  /\ main = from /\ main' = to
  /\ UNCHANGED <<cancelled, counted, accepted>>

(* The process ends, and its memory with it. *)
End ==
  /\ main' = "down" /\ cancelled' = FALSE
  /\ counted' = NothingCounted /\ accepted' = {}

InitTracing == MainStep("tracing", "connect")

(* gRPC client, NATS connection, JetStream, watcher, routes, Ready. *)
Connect == MainStep("connect", "serve")

(* A step of the set-up fails: os.Exit(1). *)
SetupFails == main \in Starting /\ End

(* Run the defers: nc.Drain, conn.Close, shutdownTrace within five seconds. *)
Close == main = "closing" /\ End

(* SIGINT or SIGTERM. *)
Signal ==
  /\ ~Gone /\ ~cancelled /\ cancelled' = TRUE
  /\ UNCHANGED <<main, counted, accepted>>

(* SIGKILL, the OOM killer. *)
Kill == ~Gone /\ End

Restart == Gone /\ main' = "tracing" /\ UNCHANGED <<cancelled, counted, accepted>>

-----------------------------------------------------------------------------
(* obs.Serve *)

(* Shutdown closes the listener and waits for the handlers. *)
Shutdown == cancelled /\ MainStep("serve", "draining")

(* Mutant of ShutdownReturns: Serve returns without waiting. *)
ShutdownReturnsAtOnce(serving) == MainStep("draining", "closing")

ShutdownReturns(serving) == serving = {} /\ MainStep("draining", "closing")

(* Mutant of ShutdownTimeout: Shutdown's context has no timeout. *)
ShutdownTimeoutNever(serving) == FALSE /\ UNCHANGED processVars

(* Ten seconds are over: Serve returns an error, os.Exit(1) skips the defers. *)
ShutdownTimeout(serving) == main = "draining" /\ serving # {} /\ End

(* ListenAndServe returns an error: os.Exit(1). *)
ServeFails == main = "serve" /\ End

-----------------------------------------------------------------------------
(* red.Wrap *)

Accept(o) ==
  /\ main = "serve"
  /\ accepted' = accepted \cup {o}
  /\ UNCHANGED <<main, cancelled, counted>>

(* Mutant of Record: the middleware counts only what called WriteHeader. *)
RecordHeaders(c) ==
  /\ counted' = IF c = "200 created" THEN counted ELSE [counted EXCEPT ![c] = @ + 1]
  /\ UNCHANGED <<main, cancelled, accepted>>

(* The handler returns: the counter of the code that statusRecorder holds  *)
(* goes up, 200 for the handler that never calls WriteHeader, and the      *)
(* server sends the answer it has buffered.                                *)
Record(c) ==
  /\ counted' = [counted EXCEPT ![c] = @ + 1]
  /\ UNCHANGED <<main, cancelled, accepted>>

ProcessTypeOK ==
  /\ main \in Starting \cup {"serve", "draining", "closing", "down"}
  /\ cancelled \in BOOLEAN
  /\ accepted \subseteq Order
  /\ counted \in [Answer -> 0 .. Cardinality(Order)]
=============================================================================
