------------------------------- MODULE Server -------------------------------
(***************************************************************************)
(* The process: Run of app/app.go with a websocket that the HTTP gateway   *)
(* forwards to the insecure gRPC server.  The stream of the gateway is one *)
(* of the RPCs that GracefulStop waits for, and the gateway, which nobody  *)
(* stops, goes on until the process ends.                                  *)
(***************************************************************************)
EXTENDS AppLifecycle, StreamGateway

ASSUME ServerAssumption == TLS \in BOOLEAN /\ MaxRPC \in Nat

vars == <<appVars, gatewayVars>>

TypeOK == AppTypeOK /\ GatewayTypeOK

Init == AppInit /\ GatewayInit

\* The gateway is started before Run waits.
GatewayUp == run \in {"wait", "stopping"}

\* The stream of the gateway is in flight at the insecure server.
Streaming == cs # "none" /\ status = "none"

Own(s) == rpcs[s] - (IF s = "insecure" /\ Streaming THEN 1 ELSE 0)

GatewayHandler  == GatewayUp /\ HandlerStep /\ UNCHANGED appVars
GatewayReader   == GatewayUp /\ ReaderStep /\ UNCHANGED appVars
GatewayExternal == GatewayUp /\ Outside /\ UNCHANGED appVars
OpenStream      == GatewayUp /\ NewStream /\ RPCStart("insecure")
EndStream       == GatewayUp /\ ServerEnds /\ RPCEnd("insecure")

AppStep == RunStep /\ UNCHANGED gatewayVars
ServerSteps(s) == ServerStep(s) /\ UNCHANGED gatewayVars

DirectRPC(s) ==
  /\ RPCStart(s) \/ (Own(s) > 0 /\ RPCEnd(s))
  /\ UNCHANGED gatewayVars

AppExternal == (Signal \/ AppShutsDown) /\ UNCHANGED gatewayVars

Next ==
  \/ AppStep \/ AppExternal
  \/ \E s \in Servers : ServerSteps(s) \/ DirectRPC(s)
  \/ GatewayHandler \/ GatewayReader \/ GatewayExternal \/ OpenStream \/ EndStream

Spec == Init /\ [][Next]_vars

(***************************************************************************)
(* Fairness.  Go runs its goroutines and fires its timers; nobody promises *)
(* that the handler of an RPC, the gateway's client or its stream's server *)
(* does anything.                                                          *)
(***************************************************************************)
FairSpec ==
  /\ Spec
  /\ WF_vars(AppStep)
  /\ \A s \in Servers : WF_vars((ServeStarts(s) \/ StopBegins(s) \/ StopEnds(s))
                                /\ UNCHANGED gatewayVars)
=============================================================================
