----------------------- MODULE ServiceLifecycleProofs -----------------------
(***************************************************************************)
(* For every number of RPCs in flight: the state of a gRPC service stays   *)
(* well typed, and a process that is gone has left no call unanswered (the *)
(* safety half of NoZombie).  Exit checks for calls in flight, the exit    *)
(* from a failed set-up does not: it relies on the order in which main     *)
(* starts things.                                                          *)
(***************************************************************************)
EXTENDS ServiceLifecycle, TLAPS

(* Before the goroutines are started nobody can call. *)
NothingBeforeSetup == main = "setup" => grpc = "none" /\ calls = 0

(* TypeOK without the Booleans, and with them. *)
DataOK ==
  /\ main \in {"setup", "wait", "stopping", "draining", "exited", "failed"}
  /\ grpc \in {"none", "starting", "ready", "serving", "returned"}
  /\ http \in {"none", "serving", "returned"}
  /\ calls \in 0 .. MaxCalls

BoolOK == cancelled \in BOOLEAN /\ ready \in BOOLEAN /\ stopped \in BOOLEAN

IInv == DataOK /\ BoolOK /\ NothingBeforeSetup /\ CallsAnswered

(* Nothing runs yet. *)
LEMMA InitIInv == Init => IInv
<1> SUFFICES ASSUME Init PROVE IInv
  OBVIOUS
<1>1. BoolOK
  BY Zenon DEF Init, BoolOK
<1>2. main = "setup" /\ grpc = "none" /\ http = "none" /\ calls = 0
  BY Zenon DEF Init
<1>3. DataOK /\ NothingBeforeSetup /\ CallsAnswered
  BY <1>2, CallsAssumption DEF DataOK, NothingBeforeSetup, CallsAnswered
<1> QED BY <1>1, <1>3 DEF IInv

(* The three flags stay Booleans. *)
LEMMA BoolStep == ASSUME BoolOK, Next PROVE BoolOK'
BY Zenon DEF BoolOK, Next, Setup, SetupFails, Signal, MainStep, NotReady, GracefulStop, Exit,
             GrpcStep, Ready, Serve, ServeReturns, ServeFails, Call, CallEnds, HttpShutdown, HttpFails

(* main: only Exit and a failed set-up leave, both with no call in flight. *)
LEMMA MainSteps ==
  ASSUME DataOK, NothingBeforeSetup, CallsAnswered, Setup \/ SetupFails \/ MainStep
  PROVE  DataOK' /\ NothingBeforeSetup' /\ CallsAnswered'
<1>1. /\ calls' = calls
      /\ \/ main = "setup" /\ main' = "wait" /\ grpc' = "starting" /\ http' = "serving"
         \/ main = "setup" /\ main' = "failed" /\ UNCHANGED <<grpc, http>>
         \/ main = "wait" /\ main' = "stopping" /\ UNCHANGED <<grpc, http>>
         \/ main = "stopping" /\ main' = "draining" /\ UNCHANGED <<grpc, http>>
         \/ main = "draining" /\ calls = 0 /\ main' = "exited" /\ UNCHANGED <<grpc, http>>
  BY Zenon DEF Setup, SetupFails, MainStep, NotReady, GracefulStop, Exit
<1> QED BY <1>1 DEF DataOK, NothingBeforeSetup, CallsAnswered, Gone

(* The goroutines: calls come only while the process is there and its      *)
(* server has been started.                                                *)
LEMMA ServerSteps ==
  ASSUME DataOK, NothingBeforeSetup, CallsAnswered,
         GrpcStep \/ ServeFails \/ Call \/ CallEnds \/ HttpShutdown \/ HttpFails \/ Signal
  PROVE  DataOK' /\ NothingBeforeSetup' /\ CallsAnswered'
<1>1. main' = main /\ ~Gone
  BY Zenon DEF GrpcStep, Ready, Serve, ServeReturns, ServeFails, Call, CallEnds, HttpShutdown, HttpFails, Signal
<1>2. \/ calls' = calls
      \/ grpc \in {"serving", "returned"} /\ calls < MaxCalls /\ calls' = calls + 1
      \/ calls > 0 /\ calls' = calls - 1
  BY Zenon DEF GrpcStep, Ready, Serve, ServeReturns, ServeFails, Call, CallEnds, HttpShutdown, HttpFails, Signal
<1>3. \/ grpc' = grpc
      \/ grpc \in {"starting", "ready", "serving"} /\ grpc' \in {"ready", "serving", "returned"}
  BY DEF GrpcStep, Ready, Serve, ServeReturns, ServeFails, Call, CallEnds, HttpShutdown, HttpFails, Signal
<1>4. http' = http \/ http' = "returned"
  BY Zenon DEF GrpcStep, Ready, Serve, ServeReturns, ServeFails, Call, CallEnds, HttpShutdown, HttpFails, Signal
<1>5. calls' \in 0 .. MaxCalls
  BY <1>2, CallsAssumption DEF DataOK
<1>6. DataOK'
  BY <1>1, <1>3, <1>4, <1>5 DEF DataOK
<1>7. NothingBeforeSetup'
  BY <1>1, <1>2, <1>3 DEF NothingBeforeSetup
<1> QED BY <1>1, <1>6, <1>7 DEF CallsAnswered, Gone

(* The inductive invariant holds in every reachable state. *)
THEOREM ServiceInvariant == Spec => []IInv
<1>1. IInv /\ [Next]_vars => IInv'
  <2> SUFFICES ASSUME IInv, [Next]_vars PROVE IInv'
    OBVIOUS
  <2>1. CASE Next
    <3>1. BoolOK'
      BY <2>1, BoolStep DEF IInv
    <3>2. DataOK' /\ NothingBeforeSetup' /\ CallsAnswered'
      BY <2>1, MainSteps, ServerSteps DEF IInv, Next
    <3> QED BY <3>1, <3>2 DEF IInv
  <2>2. CASE UNCHANGED vars
    <3>1. BoolOK'
      BY <2>2, Zenon DEF IInv, BoolOK, vars
    <3>2. UNCHANGED <<main, grpc, http, calls>>
      BY <2>2, Zenon DEF vars
    <3>3. DataOK' /\ NothingBeforeSetup' /\ CallsAnswered'
      BY <3>2 DEF IInv, DataOK, NothingBeforeSetup, CallsAnswered, Gone
    <3> QED BY <3>1, <3>3 DEF IInv
  <2> QED BY <2>1, <2>2
<1> QED BY InitIInv, <1>1, PTL DEF Spec

(* The state stays well typed. *)
LEMMA ServiceTypeOK == Spec => []TypeOK
<1>1. IInv => TypeOK
  BY Zenon DEF IInv, DataOK, BoolOK, TypeOK
<1> QED BY ServiceInvariant, <1>1, PTL

(* A process that has exited (main returned after gs.GracefulStop, or      *)
(* os.Exit(1) in the set-up) has no call in flight.                        *)
THEOREM NoCallLeftBehind == Spec => []CallsAnswered
<1>1. IInv => CallsAnswered
  BY DEF IInv
<1> QED BY ServiceInvariant, <1>1, PTL
=============================================================================
