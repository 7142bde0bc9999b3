---------------------------- MODULE AppLifecycle ----------------------------
(***************************************************************************)
(* Run of app/app.go: the start of the process, the goroutines that serve  *)
(* the two gRPC servers, and the shutdown with its grace period.  The gRPC *)
(* servers and the application are external.                               *)
(***************************************************************************)
EXTENDS Naturals

CONSTANTS
  TLS,    \* whether config.TLSCertificate is set
  MaxRPC  \* bound: RPCs in flight on a server

Servers == {"secure", "insecure"}

VARIABLES
  run,      \* control state of Run
  app,      \* the application: "none", "ready" or "stopped"
  appDown,  \* ShutdownChan of the application is closed
  signal,   \* a signal waits in osSigCh
  server,   \* each gRPC server
  serving,  \* the goroutine that calls Serve; "done" when its channel is closed
  rpcs,     \* RPCs in flight on each server
  stopper   \* control state of the shutdown goroutine

appVars == <<run, app, appDown, signal, server, serving, rpcs, stopper>>

RunStates == {"config", "listen", "tls", "init", "serve", "wait", "stopping",
              "nil", "err", "exited"}

AppTypeOK ==
  /\ run \in RunStates
  /\ app \in {"none", "ready", "stopped"}
  /\ appDown \in BOOLEAN /\ signal \in BOOLEAN
  /\ server \in [Servers -> {"new", "serving", "failed", "draining", "stopped"}]
  /\ serving \in [Servers -> {"none", "starting", "serving", "done"}]
  /\ rpcs \in [Servers -> 0 .. MaxRPC]
  /\ stopper \in {"none", "secure", "insecure", "app", "done"}

AppInit ==
  /\ run = "config"
  /\ app = "none"
  /\ appDown = FALSE /\ signal = FALSE
  /\ server = [s \in Servers |-> "new"]
  /\ serving = [s \in Servers |-> "none"]
  /\ rpcs = [s \in Servers |-> 0]
  /\ stopper = "none"

Alive == run \notin {"nil", "err", "exited"}

-----------------------------------------------------------------------------
(***************************************************************************)
(* Starting up.  Every step may end the process with os.Exit(1).           *)
(***************************************************************************)
Boot(from, to) ==
  /\ run = from
  /\ run' \in {to, "exited"}
  /\ UNCHANGED <<appDown, signal, server, serving, rpcs, stopper>>

LoadConfig == Boot("config", "listen") /\ UNCHANGED app
Listen     == Boot("listen", IF TLS THEN "tls" ELSE "init") /\ UNCHANGED app
LoadTLS    == Boot("tls", "init") /\ UNCHANGED app

InitApp ==
  /\ Boot("init", "serve")
  /\ app' = IF run' = "serve" THEN "ready" ELSE app

\* The servers are set up and their goroutines started.
Serve ==
  /\ run = "serve"
  /\ run' = "wait"
  /\ serving' = [s \in Servers |-> IF s = "insecure" \/ TLS THEN "starting" ELSE "none"]
  /\ UNCHANGED <<app, appDown, signal, server, rpcs, stopper>>

\* The goroutine calls Serve, which refuses a server that has been stopped.
ServeStarts(s) ==
  /\ Alive
  /\ serving[s] = "starting"
  /\ IF server[s] = "new"
     THEN /\ server' = [server EXCEPT ![s] = "serving"]
          /\ serving' = [serving EXCEPT ![s] = "serving"]
     ELSE /\ serving' = [serving EXCEPT ![s] = "done"]
          /\ UNCHANGED server
  /\ UNCHANGED <<run, app, appDown, signal, rpcs, stopper>>

\* Serve returns, because the listener fails or because of GracefulStop.
ServeEnds(s) ==
  /\ Alive
  /\ serving[s] = "serving"
  /\ server' = [server EXCEPT ![s] = IF @ = "serving" THEN "failed" ELSE @]
  /\ serving' = [serving EXCEPT ![s] = "done"]
  /\ UNCHANGED <<run, app, appDown, signal, rpcs, stopper>>

-----------------------------------------------------------------------------
(***************************************************************************)
(* External: requests, signals and the application.  Signals, and the end  *)
(* of the application, that come while Run is stopping have no effect.     *)
(***************************************************************************)
RPCStart(s) ==
  /\ Alive
  /\ server[s] = "serving"
  /\ rpcs[s] < MaxRPC
  /\ rpcs' = [rpcs EXCEPT ![s] = @ + 1]
  /\ UNCHANGED <<run, app, appDown, signal, server, serving, stopper>>

RPCEnd(s) ==
  /\ Alive
  /\ rpcs[s] > 0
  /\ rpcs' = [rpcs EXCEPT ![s] = @ - 1]
  /\ UNCHANGED <<run, app, appDown, signal, server, serving, stopper>>

Signal ==
  /\ Alive /\ run # "stopping"
  /\ signal' = TRUE
  /\ UNCHANGED <<run, app, appDown, server, serving, rpcs, stopper>>

AppShutsDown ==
  /\ Alive /\ app = "ready" /\ run # "stopping"
  /\ appDown' = TRUE
  /\ UNCHANGED <<run, app, signal, server, serving, rpcs, stopper>>

-----------------------------------------------------------------------------
(***************************************************************************)
(* Shutting down.                                                          *)
(***************************************************************************)
\* The shutdown conditions.
Triggered == signal \/ appDown \/ \E s \in Servers : serving[s] = "done"

WaitOver ==
  /\ run = "wait"
  /\ Triggered
  /\ run' = "stopping"
  /\ stopper' = "secure"
  /\ signal' = FALSE /\ appDown' = FALSE   \* nobody looks at them again
  /\ UNCHANGED <<app, server, serving, rpcs>>

\* GracefulStop closes the listener and takes no new RPCs ...
StopBegins(s) ==
  /\ Alive
  /\ stopper = s
  /\ server[s] \notin {"draining", "stopped"}
  /\ server' = [server EXCEPT ![s] = "draining"]
  /\ UNCHANGED <<run, app, appDown, signal, serving, rpcs, stopper>>

After(s) == IF s = "secure" THEN "insecure" ELSE "app"

\* Variant: Stop is used where GracefulStop should be.
StopEndsAtOnce(s) ==
  /\ Alive
  /\ stopper = s
  /\ server[s] = "draining"
  /\ server' = [server EXCEPT ![s] = "stopped"]
  /\ stopper' = After(s)
  /\ UNCHANGED <<run, app, appDown, signal, serving, rpcs>>

\* ... and returns when the last one has ended.
StopEnds(s) ==
  /\ Alive
  /\ stopper = s
  /\ server[s] = "draining"
  /\ rpcs[s] = 0
  /\ server' = [server EXCEPT ![s] = "stopped"]
  /\ stopper' = After(s)
  /\ UNCHANGED <<run, app, appDown, signal, serving, rpcs>>

StopApp ==
  /\ Alive
  /\ stopper = "app"
  /\ app' = "stopped"
  /\ stopper' = "done"
  /\ UNCHANGED <<run, appDown, signal, server, serving, rpcs>>

\* Variant: Run waits for the shutdown goroutine without a timer.
ReturnPatient ==
  /\ run = "stopping"
  /\ stopper = "done"
  /\ run' = "nil"
  /\ UNCHANGED <<app, appDown, signal, server, serving, rpcs, stopper>>

\* Run returns, and the process ends: all stopped, or the grace period over.
Return ==
  /\ run = "stopping"
  /\ \/ stopper = "done" /\ run' = "nil"
     \/ run' = "err"
  /\ UNCHANGED <<app, appDown, signal, server, serving, rpcs, stopper>>

ServerStep(s) == ServeStarts(s) \/ ServeEnds(s) \/ StopBegins(s) \/ StopEnds(s)
RunStep == LoadConfig \/ Listen \/ LoadTLS \/ InitApp \/ Serve \/ WaitOver \/ StopApp \/ Return

-----------------------------------------------------------------------------
\* The app "gets initialized before the gRPC server runs, and gets stopped after
\* the gRPC server has stopped serving": no RPC of either server, started in
\* whatever way, runs outside the application's life.
AppOutlivesRPCs == (\E s \in Servers : rpcs[s] > 0) => app = "ready"

\* Once Run waits, each of the shutdown conditions makes it return, even if an
\* RPC or the application never finishes.
RunReturns == run = "wait" /\ Triggered ~> ~Alive
=============================================================================
