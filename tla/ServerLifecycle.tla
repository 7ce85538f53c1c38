--------------------------- MODULE ServerLifecycle ---------------------------
(***************************************************************************)
(* The life of a service process: Start of cmd/api/server.go, from the     *)
(* configuration to the deferred closes, with the three goroutines of      *)
(* runWithGracefulShutdown (HTTP server, optional gRPC server, the one     *)
(* that waits for a signal or a server error) and the requests the two     *)
(* servers have in hand.                                                   *)
(*                                                                         *)
(* net/http and grpc-go are modelled by what Start relies on.  Shutdown and *)
(* GracefulStop accept no more connections, close those that carry nothing *)
(* and wait for the others, on which a request may still begin; Shutdown   *)
(* waits until its deadline, GracefulStop without one.  ListenAndServe     *)
(* returns ErrServerClosed at once, Serve when GracefulStop is over.  A    *)
(* server that fails keeps its connections.                                *)
(***************************************************************************)
EXTENDS Naturals

CONSTANTS
  HTTPRequests, RPCs   \* the requests clients may send, disjoint sets

ASSUME LifecycleAssumption == HTTPRequests \cap RPCs = {}

VARIABLES
  main,          \* where Start stands
  result,        \* what Start returned
  cluster,       \* the database pools
  http,          \* the goroutine that runs ListenAndServe
  grpc,          \* the goroutine that runs net.Listen and Serve
  waiter,        \* the goroutine that waits for a signal or ctx.Done
  cancelled,     \* the errgroup's context: a goroutine returned an error
  quit,          \* a signal waits in the channel
  graceOver,     \* the ten seconds of shutdownCtx are over
  work,          \* work[w]: what became of request w
  withGRPC       \* GRPC_ENABLED

vars == <<main, result, cluster, http, grpc, waiter, cancelled, quit, graceOver, work, withGRPC>>
servers == <<http, grpc, waiter, cancelled, quit, graceOver>>

Work == HTTPRequests \cup RPCs

TypeOK ==
  /\ main \in {"validating", "connecting", "wiring", "serving",
               "closing", "flushing", "exited"}
  /\ result \in {"none", "nil", "error", "killed"}
  /\ cluster \in {"none", "open", "closed"}
  /\ http \in {"down", "starting", "serving", "failed", "closed"}
  /\ grpc \in {"down", "absent", "starting", "bound", "serving", "failed",
               "tooLate", "closed"}
  /\ waiter \in {"down", "waiting", "stoppingHTTP", "stoppingGRPC", "done", "gaveUp"}
  /\ cancelled \in BOOLEAN
  /\ quit \in BOOLEAN
  /\ graceOver \in BOOLEAN
  /\ work \in [Work -> {"unsent", "connected", "running", "answered",
                        "refused", "cut"}]
  /\ withGRPC \in BOOLEAN

Init ==
  /\ main = "validating"
  /\ result = "none"
  /\ cluster = "none"
  /\ http = "down"
  /\ grpc = "down"
  /\ waiter = "down"
  /\ cancelled = FALSE
  /\ quit = FALSE
  /\ graceOver = FALSE
  /\ work = [w \in Work |-> "unsent"]
  /\ withGRPC \in BOOLEAN

-----------------------------------------------------------------------------
(***************************************************************************)
(* Mutants: plausible bugs, each a changed form of a definition below.     *)
(***************************************************************************)
ClosesAtOnce == TRUE
NoDeadline == \A w \in HTTPRequests : work[w] \notin {"connected", "running"}
FiltersNothing ==
  /\ http \in {"starting", "serving"}
  /\ waiter \in {"stoppingHTTP", "stoppingGRPC", "done"}
  /\ http' = "closed"
  /\ cancelled' = TRUE
  /\ UNCHANGED <<main, result, cluster, grpc, waiter, quit, graceOver, work, withGRPC>>

-----------------------------------------------------------------------------
(***************************************************************************)
(* Start, up to the servers                                                *)
(***************************************************************************)
Return(r) == main' = "exited" /\ result' = r

ValidateConfig ==
  /\ main = "validating"
  /\ \/ main' = "connecting" /\ UNCHANGED result
     \/ Return("error")
  /\ UNCHANGED <<cluster, work, withGRPC, servers>>

\* Only the writer can fail the start: NewDBCluster falls back to it when the
\* reader does not connect.
ConnectDatabase ==
  /\ main = "connecting"
  /\ \/ main' = "wiring" /\ cluster' = "open" /\ UNCHANGED result
     \/ Return("error") /\ UNCHANGED cluster
  /\ UNCHANGED <<work, withGRPC, servers>>

\* Telemetry, metrics, Redis and the idempotency store degrade, they do not
\* fail; then signal.Notify and the three g.Go.
Launch ==
  /\ main = "wiring"
  /\ main' = "serving"
  /\ http' = "starting"
  /\ grpc' = IF withGRPC THEN "starting" ELSE "absent"
  /\ waiter' = "waiting"
  /\ UNCHANGED <<result, cluster, cancelled, quit, graceOver, work, withGRPC>>

(***************************************************************************)
(* The HTTP goroutine                                                      *)
(***************************************************************************)
Stopping == waiter \in {"stoppingHTTP", "stoppingGRPC", "done"}

HTTPListens ==
  /\ http = "starting"
  /\ ~Stopping
  /\ http' = "serving"
  /\ UNCHANGED <<main, result, cluster, grpc, waiter, cancelled, quit, graceOver, work, withGRPC>>

\* The port is taken, or Accept fails for good.
HTTPFails ==
  /\ http = "starting" \/ (http = "serving" /\ ~Stopping)
  /\ http' = "failed"
  /\ cancelled' = TRUE
  /\ UNCHANGED <<main, result, cluster, grpc, waiter, quit, graceOver, work, withGRPC>>

\* http.ErrServerClosed is not an error.
HTTPCloses ==
  /\ http \in {"starting", "serving"}
  /\ Stopping
  /\ http' = "closed"
  /\ UNCHANGED <<main, result, cluster, grpc, waiter, cancelled, quit, graceOver, work, withGRPC>>

(***************************************************************************)
(* The gRPC goroutine                                                      *)
(***************************************************************************)
GRPCStopping == waiter \in {"stoppingGRPC", "done"}

GRPCListens ==
  /\ grpc = "starting"
  /\ grpc' = "bound"
  /\ UNCHANGED <<main, result, cluster, http, waiter, cancelled, quit, graceOver, work, withGRPC>>

GRPCServes ==
  /\ grpc = "bound"
  /\ ~GRPCStopping
  /\ grpc' = "serving"
  /\ UNCHANGED <<main, result, cluster, http, waiter, cancelled, quit, graceOver, work, withGRPC>>

GRPCReturnsError(how) ==
  /\ grpc' = how
  /\ cancelled' = TRUE
  /\ UNCHANGED <<main, result, cluster, http, waiter, quit, graceOver, work, withGRPC>>

\* net.Listen fails, or Accept fails for good.
GRPCFails ==
  /\ grpc = "starting" \/ (grpc = "serving" /\ ~GRPCStopping)
  /\ GRPCReturnsError("failed")

\* Serve comes after GracefulStop and returns ErrServerStopped, which this
\* goroutine does not filter.
GRPCServesTooLate ==
  /\ grpc = "bound"
  /\ GRPCStopping
  /\ GRPCReturnsError("tooLate")

GRPCCloses ==
  /\ grpc = "serving"
  /\ waiter = "done"
  /\ grpc' = "closed"
  /\ UNCHANGED <<main, result, cluster, http, waiter, cancelled, quit, graceOver, work, withGRPC>>

(***************************************************************************)
(* The goroutine that shuts down                                           *)
(***************************************************************************)
\* No handler runs and none can begin: no connection is left.
Quiet(kind) == \A w \in kind : work[w] \notin {"connected", "running"}

\* Shutdown closes a connection that is idle, or new for five seconds without
\* a request; GracefulStop one without a stream.
HangUp(w) ==
  /\ work[w] = "connected"
  /\ \/ w \in HTTPRequests /\ waiter = "stoppingHTTP"
     \/ w \in RPCs /\ waiter = "stoppingGRPC"
  /\ work' = [work EXCEPT ![w] = "refused"]
  /\ UNCHANGED <<main, result, cluster, withGRPC, servers>>

SeesSignal ==
  /\ waiter = "waiting"
  /\ quit
  /\ waiter' = "stoppingHTTP"
  /\ quit' = FALSE
  /\ UNCHANGED <<main, result, cluster, http, grpc, cancelled, graceOver, work, withGRPC>>

\* ctx.Done: returns without stopping the server that still runs.
SeesServerError ==
  /\ waiter = "waiting"
  /\ cancelled
  /\ waiter' = "gaveUp"
  /\ UNCHANGED <<main, result, cluster, http, grpc, cancelled, quit, graceOver, work, withGRPC>>

DeadlinePasses ==
  /\ waiter = "stoppingHTTP"
  /\ ~graceOver
  /\ graceOver' = TRUE
  /\ UNCHANGED <<main, result, cluster, http, grpc, waiter, cancelled, quit, work, withGRPC>>

\* httpSrv.Shutdown: every handler has returned, or the deadline has passed.
ShutdownReturns == Quiet(HTTPRequests) \/ graceOver
StopHTTP ==
  /\ waiter = "stoppingHTTP"
  /\ ShutdownReturns
  /\ waiter' = IF withGRPC THEN "stoppingGRPC" ELSE "done"
  /\ UNCHANGED <<main, result, cluster, http, grpc, cancelled, quit, graceOver, work, withGRPC>>

\* grpcSrv.GracefulStop: every RPC has returned.
StopGRPC ==
  /\ waiter = "stoppingGRPC"
  /\ Quiet(RPCs)
  /\ waiter' = "done"
  /\ UNCHANGED <<main, result, cluster, http, grpc, cancelled, quit, graceOver, work, withGRPC>>

(***************************************************************************)
(* Start, after the servers                                                *)
(***************************************************************************)
WaitReturns ==
  /\ main = "serving"
  /\ http \in {"failed", "closed"}
  /\ grpc \in {"absent", "failed", "tooLate", "closed"}
  /\ waiter \in {"done", "gaveUp"}
  /\ main' = "closing"
  /\ result' = IF cancelled THEN "error" ELSE "nil"
  /\ UNCHANGED <<cluster, work, withGRPC, servers>>

\* The deferred cluster.Close runs before the deferred telemetry flush.
CloseCluster ==
  /\ main = "closing"
  /\ cluster' = "closed"
  /\ main' = "flushing"
  /\ UNCHANGED <<result, work, withGRPC, servers>>

\* The process ends, and with it every handler that still runs.
AtExit(state) ==
  CASE state = "running" -> "cut" [] state = "connected" -> "refused" [] OTHER -> state

Exit ==
  /\ main = "flushing"
  /\ main' = "exited"
  /\ work' = [w \in Work |-> AtExit(work[w])]
  /\ UNCHANGED <<result, cluster, withGRPC, servers>>

(***************************************************************************)
(* Clients and the operating system                                        *)
(***************************************************************************)
Connect(w) ==
  /\ work[w] = "unsent"
  /\ \/ w \in HTTPRequests /\ http = "serving" /\ ~Stopping
     \/ w \in RPCs /\ grpc = "serving" /\ ~GRPCStopping
  /\ work' = [work EXCEPT ![w] = "connected"]
  /\ UNCHANGED <<main, result, cluster, withGRPC, servers>>

Arrive(w) ==
  /\ work[w] = "connected"
  /\ work' = [work EXCEPT ![w] = "running"]
  /\ UNCHANGED <<main, result, cluster, withGRPC, servers>>

Finish(w) ==
  /\ work[w] = "running"
  /\ work' = [work EXCEPT ![w] = "answered"]
  /\ UNCHANGED <<main, result, cluster, withGRPC, servers>>

\* The channel holds one signal; another one is dropped.
Signal ==
  /\ main \in {"serving", "closing", "flushing"}
  /\ quit' = TRUE
  /\ UNCHANGED <<main, result, cluster, http, grpc, waiter, cancelled, graceOver, work, withGRPC>>

\* Before signal.Notify a signal kills the process.
SignalTooEarly ==
  /\ main \in {"validating", "connecting", "wiring"}
  /\ Return("killed")
  /\ UNCHANGED <<cluster, work, withGRPC, servers>>

-----------------------------------------------------------------------------
Boot == ValidateConfig \/ ConnectDatabase \/ Launch
HTTPServer == HTTPListens \/ HTTPCloses
GRPCServer == GRPCListens \/ GRPCServes \/ GRPCServesTooLate \/ GRPCCloses
Waiter == SeesSignal \/ SeesServerError \/ StopHTTP \/ StopGRPC
WindDown == WaitReturns \/ CloseCluster \/ Exit

Next ==
  \/ Boot \/ HTTPServer \/ GRPCServer \/ Waiter \/ WindDown
  \/ HTTPFails \/ GRPCFails \/ DeadlinePasses
  \/ Signal \/ SignalTooEarly
  \/ \E w \in Work : Connect(w) \/ HangUp(w) \/ Arrive(w) \/ Finish(w)

\* Goroutines are scheduled, the timer fires and a server that stops closes its
\* connections that carry nothing.  No handler need return, of HTTP or of an
\* RPC; servers need not fail, nobody need send a signal.
Fairness ==
  /\ WF_vars(Boot) /\ WF_vars(HTTPServer) /\ WF_vars(GRPCServer)
  /\ WF_vars(Waiter) /\ WF_vars(DeadlinePasses) /\ WF_vars(WindDown)
  /\ \A w \in Work : WF_vars(HangUp(w))

Spec == Init /\ [][Next]_vars
FairSpec == Spec /\ Fairness

-----------------------------------------------------------------------------
(***************************************************************************)
(* Properties                                                              *)
(***************************************************************************)
\* The pools are closed (server.go:108) under a running handler, or one that may
\* still begin, only if the ten seconds of shutdownCtx were not enough or its own
\* server failed; under an RPC only if both servers failed, because GracefulStop
\* waits.
DatabaseOutlivesHandlers == cluster = "closed" =>
  /\ ~Quiet(HTTPRequests) => graceOver \/ http = "failed"
  /\ ~Quiet(RPCs) => http = "failed" /\ grpc = "failed"

ServerFailed == http = "failed" \/ grpc = "failed"

\* A stop that no server's failure led to cuts no RPC, and an HTTP request only
\* after the deadline; and it exits with 1 only if the signal overtook the start
\* of the gRPC server, which then has not served anybody: stopping is not an
\* error (server.go:267), but ErrServerStopped is not filtered (server.go:282).
CleanStop == main = "exited" /\ waiter = "done" /\ ~ServerFailed =>
  /\ \A w \in RPCs : work[w] # "cut"
  /\ (\E w \in HTTPRequests : work[w] = "cut") => graceOver
  /\ result = "error" => grpc = "tooLate" /\ \A w \in RPCs : work[w] = "unsent"

\* A signal ends the process although HTTP handlers may hang, provided that no
\* RPC does: Shutdown has a deadline and GracefulStop has none (server.go:304,
\* 310).  It is lost on a process whose waiting goroutine has given up on a
\* failed server (server.go:294); a server that fails later does not matter.
NoRPCHangs == \A w \in RPCs : []<>(work[w] # "running")
SignalStops == NoRPCHangs =>
  ((main = "serving" /\ quit) ~> (main = "exited" \/ waiter = "gaveUp"))
=============================================================================
