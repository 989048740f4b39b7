-------------------------- MODULE ServiceLifecycle --------------------------
(***************************************************************************)
(* The life of a gRPC service (main of payments-svc and of inventory-svc): *)
(* the main goroutine, the one that serves gRPC and the one that serves    *)
(* probes and metrics (obs.Serve), sharing a context and the readiness     *)
(* flag of obs.Health.                                                     *)
(***************************************************************************)
EXTENDS Naturals

CONSTANT MaxCalls   \* bound on RPCs in flight

ASSUME CallsAssumption == MaxCalls \in Nat

VARIABLES
  main,       \* the main goroutine
  grpc,       \* the goroutine that calls Ready, then gs.Serve
  http,       \* the goroutine in obs.Serve
  cancelled,  \* the context of signal.NotifyContext is done
  ready,      \* Health.ready
  stopped,    \* gs.GracefulStop was called: no new connections
  calls       \* RPCs in flight

vars == <<main, grpc, http, cancelled, ready, stopped, calls>>

Init ==
  /\ main = "setup" /\ grpc = "none" /\ http = "none"
  /\ cancelled = FALSE /\ ready = FALSE /\ stopped = FALSE
  /\ calls = 0

Gone == main \in {"exited", "failed"}

-----------------------------------------------------------------------------
(* main: tracing, connection, listener, the two goroutines. *)
Setup ==
  /\ main = "setup" /\ main' = "wait"
  /\ grpc' = "starting" /\ http' = "serving"
  /\ UNCHANGED <<cancelled, ready, stopped, calls>>

(* Any step of the setup fails: os.Exit(1). *)
SetupFails ==
  /\ main = "setup" /\ main' = "failed"
  /\ UNCHANGED <<grpc, http, cancelled, ready, stopped, calls>>

Signal ==
  /\ ~Gone /\ ~cancelled /\ cancelled' = TRUE
  /\ UNCHANGED <<main, grpc, http, ready, stopped, calls>>

(* <-ctx.Done(); health.NotReady() *)
NotReady ==
  /\ main = "wait" /\ cancelled
  /\ main' = "stopping" /\ ready' = FALSE
  /\ UNCHANGED <<grpc, http, cancelled, stopped, calls>>

GracefulStop ==
  /\ main = "stopping" /\ main' = "draining"
  /\ stopped' = TRUE
  /\ UNCHANGED <<grpc, http, cancelled, ready, calls>>

(* Mutant of Exit: gs.Stop in place of gs.GracefulStop, which does not wait. *)
ExitStops ==
  /\ main = "draining" /\ main' = "exited"
  /\ UNCHANGED <<grpc, http, cancelled, ready, stopped, calls>>

(* GracefulStop returns when no call is left, and so does main. *)
Exit ==
  /\ main = "draining" /\ calls = 0 /\ main' = "exited"
  /\ UNCHANGED <<grpc, http, cancelled, ready, stopped, calls>>

-----------------------------------------------------------------------------
(* The gRPC goroutine: health.Ready() comes before gs.Serve. *)

Ready ==
  /\ ~Gone /\ grpc = "starting" /\ grpc' = "ready"
  /\ ready' = TRUE
  /\ UNCHANGED <<main, http, cancelled, stopped, calls>>

(* A server that was stopped before it served returns ErrServerStopped. *)
Serve ==
  /\ ~Gone /\ grpc = "ready"
  /\ grpc' = IF stopped THEN "returned" ELSE "serving"
  /\ UNCHANGED <<main, http, cancelled, ready, stopped, calls>>

ServeReturns ==
  /\ ~Gone /\ grpc = "serving" /\ stopped
  /\ grpc' = "returned"
  /\ UNCHANGED <<main, http, cancelled, ready, stopped, calls>>

(* Mutant of ServeFails: the error is only logged. *)
ServeFailsLogged ==
  /\ ~Gone /\ grpc = "serving" /\ ~stopped
  /\ grpc' = "returned"
  /\ UNCHANGED <<main, http, cancelled, ready, stopped, calls>>

(* Serve returns another error: the goroutine cancels the context. *)
ServeFails ==
  /\ ~Gone /\ grpc = "serving" /\ ~stopped
  /\ grpc' = "returned" /\ cancelled' = TRUE
  /\ UNCHANGED <<main, http, ready, stopped, calls>>

(* Connections that are open stay in use when Serve has failed. *)
Call ==
  /\ ~Gone /\ grpc \in {"serving", "returned"} /\ ~stopped
  /\ calls < MaxCalls
  /\ calls' = calls + 1
  /\ UNCHANGED <<main, grpc, http, cancelled, ready, stopped>>

(* Handlers end: Charge with the caller's deadline, Reserve at once. *)
CallEnds ==
  /\ ~Gone /\ calls > 0
  /\ calls' = calls - 1
  /\ UNCHANGED <<main, grpc, http, cancelled, ready, stopped>>

-----------------------------------------------------------------------------
(* obs.Serve: Shutdown on cancellation; a ListenAndServe error is logged. *)

HttpShutdown ==
  /\ ~Gone /\ http = "serving" /\ cancelled
  /\ http' = "returned"
  /\ UNCHANGED <<main, grpc, cancelled, ready, stopped, calls>>

HttpFails ==
  /\ ~Gone /\ http = "serving" /\ ~cancelled
  /\ http' = "returned"
  /\ UNCHANGED <<main, grpc, cancelled, ready, stopped, calls>>

-----------------------------------------------------------------------------
MainStep == NotReady \/ GracefulStop \/ Exit
GrpcStep == Ready \/ Serve \/ ServeReturns

Next ==
  \/ Setup \/ SetupFails \/ Signal \/ MainStep
  \/ GrpcStep \/ ServeFails \/ Call \/ CallEnds
  \/ HttpShutdown \/ HttpFails

Spec == Init /\ [][Next]_vars

(* Goroutines are scheduled, and calls end. *)
FairSpec ==
  /\ Spec
  /\ WF_vars(Setup \/ SetupFails) /\ WF_vars(MainStep)
  /\ WF_vars(GrpcStep)
  /\ WF_vars(CallEnds)

-----------------------------------------------------------------------------
TypeOK ==
  /\ main \in {"setup", "wait", "stopping", "draining", "exited", "failed"}
  /\ grpc \in {"none", "starting", "ready", "serving", "returned"}
  /\ http \in {"none", "serving", "returned"}
  /\ cancelled \in BOOLEAN /\ ready \in BOOLEAN /\ stopped \in BOOLEAN
  /\ calls \in 0 .. MaxCalls

(* A process that is gone has answered every call it took: main returns,   *)
(* and closes the connection to inventory-svc that Charge uses, only after *)
(* the drain, and no call can have come in when the set-up fails.          *)
CallsAnswered == Gone => calls = 0

(* A process that was told to stop does, with every call it accepted       *)
(* answered; and one whose gRPC server has ended does not live on as an    *)
(* empty shell that its liveness probe still finds healthy.                *)
NoZombie == (grpc = "returned" \/ cancelled) ~> (Gone /\ calls = 0)
=============================================================================
