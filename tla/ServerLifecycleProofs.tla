----------------------- MODULE ServerLifecycleProofs -----------------------
(***************************************************************************)
(* Proofs about ServerLifecycle, for any number of requests and with or    *)
(* without the gRPC server.                                                *)
(***************************************************************************)
EXTENDS ServerLifecycle, TLAPS

Unserved == \A w \in RPCs : work[w] = "unsent"
Cut(kind) == \E w \in kind : work[w] = "cut"

\* Once the group's Wait has returned, its three goroutines are over.
Over ==
  /\ http \in {"failed", "closed"}
  /\ grpc \in {"absent", "failed", "tooLate", "closed"}
  /\ waiter \in {"done", "gaveUp"}

WoundDown ==
  /\ cluster = "closed" => main \in {"flushing", "exited"}
  /\ main \in {"closing", "flushing"} \/ cluster = "closed" => Over
  /\ main = "flushing" => cluster = "closed"
  /\ main = "exited" /\ waiter # "down" => cluster = "closed"

\* A server is closed only by the goroutine that shuts down.
ClosedByWaiter ==
  /\ http = "closed" => Stopping
  /\ grpc = "closed" => waiter = "done"

\* What the two waits of a shutdown have established.
Drained ==
  /\ GRPCStopping => Quiet(HTTPRequests) \/ graceOver
  /\ waiter = "done" => Quiet(RPCs)
  /\ grpc \in {"down", "absent", "starting", "bound", "tooLate"} => Unserved
  /\ ~withGRPC => grpc \in {"down", "absent"}

\* Requests are cut by the end of the process alone, as many as it drained not.
CutsKnown ==
  /\ Cut(Work) => main = "exited" /\ waiter \in {"done", "gaveUp"}
  /\ waiter = "done" => ~Cut(RPCs) /\ (Cut(HTTPRequests) => graceOver)

\* The group's first error is some server's.
ErrorsKnown ==
  /\ cancelled <=> ServerFailed \/ grpc = "tooLate"
  /\ main \in {"closing", "flushing"} \/ (main = "exited" /\ waiter # "down")
       => (result = "error" <=> cancelled)

\* Boot has no servers yet.
NotLaunched == main \in {"validating", "connecting", "wiring"} =>
  http = "down" /\ grpc = "down" /\ waiter = "down" /\ ~cancelled

IInv ==
  /\ TypeOK
  /\ WoundDown
  /\ ClosedByWaiter
  /\ Drained
  /\ CutsKnown
  /\ ErrorsKnown
  /\ NotLaunched

-----------------------------------------------------------------------------
(***************************************************************************)
(* What becomes of requests                                                *)
(***************************************************************************)
\* A step that touches no request changes nothing of this.
LEMMA FactsUnchanged ==
  ASSUME work' = work
  PROVE  /\ Quiet(HTTPRequests)' = Quiet(HTTPRequests)
         /\ Quiet(RPCs)' = Quiet(RPCs)
         /\ Unserved' = Unserved
         /\ Cut(Work)' = Cut(Work)
         /\ Cut(HTTPRequests)' = Cut(HTTPRequests)
         /\ Cut(RPCs)' = Cut(RPCs)
BY DEF Quiet, Unserved, Cut

\* A request that is begun, answered or refused was in hand: the others stay
\* as they are, and none is cut.
LEMMA WorkSteps ==
  ASSUME TypeOK, NEW w \in Work, HangUp(w) \/ Arrive(w) \/ Finish(w)
  PROVE  /\ Quiet(HTTPRequests) => Quiet(HTTPRequests)'
         /\ Quiet(RPCs) => Quiet(RPCs)'
         /\ Unserved => Unserved'
         /\ Cut(Work)' => Cut(Work)
         /\ Cut(HTTPRequests)' => Cut(HTTPRequests)
         /\ Cut(RPCs)' => Cut(RPCs)
         /\ TypeOK'
         /\ UNCHANGED <<main, result, cluster, withGRPC, servers>>
<1>1. PICK state \in {"running", "answered", "refused"} :
        work' = [work EXCEPT ![w] = state]
  BY DEF HangUp, Arrive, Finish
<1>2. work[w] \in {"connected", "running"} /\ HTTPRequests \subseteq Work /\ RPCs \subseteq Work
  BY DEF HangUp, Arrive, Finish, Work
<1>3. UNCHANGED <<main, result, cluster, withGRPC, servers>>
  BY DEF HangUp, Arrive, Finish
<1>4. \A v \in Work : v # w => work'[v] = work[v]
  BY <1>1 DEF TypeOK
<1>5. work'[w] # "cut" /\ work' \in [Work -> {"unsent", "connected", "running",
                                             "answered", "refused", "cut"}]
  BY <1>1 DEF TypeOK
<1>6. TypeOK'
  BY <1>3, <1>5 DEF TypeOK, servers
<1>7. \A v \in Work : work'[v] = "cut" => work[v] = "cut"
  BY <1>4, <1>5
<1>8. QED
  BY <1>2, <1>3, <1>4, <1>6, <1>7 DEF Quiet, Unserved, Cut

\* A connection disturbs its own kind only, and cuts nothing.
LEMMA ConnectSteps ==
  ASSUME TypeOK, NEW w \in Work, Connect(w)
  PROVE  /\ w \notin HTTPRequests /\ Quiet(HTTPRequests) => Quiet(HTTPRequests)'
         /\ w \notin RPCs /\ Quiet(RPCs) => Quiet(RPCs)'
         /\ w \notin RPCs /\ Unserved => Unserved'
         /\ Cut(Work)' => Cut(Work)
         /\ Cut(HTTPRequests)' => Cut(HTTPRequests)
         /\ Cut(RPCs)' => Cut(RPCs)
         /\ TypeOK'
<1>1. work' = [work EXCEPT ![w] = "connected"] /\ HTTPRequests \subseteq Work /\ RPCs \subseteq Work
  BY DEF Connect, Work
<1>2. \A v \in Work : v # w => work'[v] = work[v]
  BY <1>1 DEF TypeOK
<1>3. work'[w] = "connected"
  BY <1>1 DEF TypeOK
<1>4. TypeOK'
  BY DEF Connect, TypeOK, servers
<1>5. \A v \in Work : work'[v] = "cut" => work[v] = "cut"
  BY <1>2, <1>3
<1>6. QED
  BY <1>1, <1>2, <1>4, <1>5 DEF Quiet, Unserved, Cut

\* At the end of the process nothing is in hand, and what was is cut.
LEMMA ExitSteps ==
  ASSUME TypeOK, Exit
  PROVE  /\ Quiet(HTTPRequests)' /\ Quiet(RPCs)'
         /\ Unserved => Unserved'
         /\ Quiet(HTTPRequests) /\ ~Cut(HTTPRequests) => ~Cut(HTTPRequests)'
         /\ Quiet(RPCs) /\ ~Cut(RPCs) => ~Cut(RPCs)'
<1>1. \A w \in Work : work'[w] = AtExit(work[w])
  BY DEF Exit
<1>2. \A w \in Work : /\ work'[w] \notin {"connected", "running"}
                      /\ work[w] \notin {"connected", "running"} => work'[w] = work[w]
  BY <1>1 DEF AtExit, TypeOK
<1>3. HTTPRequests \subseteq Work /\ RPCs \subseteq Work
  BY DEF Work
<1>4. QED
  BY <1>2, <1>3 DEF Quiet, Unserved, Cut

-----------------------------------------------------------------------------
(***************************************************************************)
(* The inductive invariant                                                 *)
(***************************************************************************)
LEMMA InitIInv == Init => IInv
BY LifecycleAssumption
DEF Init, IInv, TypeOK, WoundDown, Over, ClosedByWaiter, Drained, ErrorsKnown,
    CutsKnown, NotLaunched, ServerFailed, Stopping, GRPCStopping, Quiet, Unserved,
    Cut, Work

LEMMA NextIInv == IInv /\ [Next]_vars => IInv'
<1> SUFFICES ASSUME IInv, [Next]_vars PROVE IInv'
  OBVIOUS
<1>q. work' = work =>
        /\ Quiet(HTTPRequests)' = Quiet(HTTPRequests)
        /\ Quiet(RPCs)' = Quiet(RPCs)
        /\ Unserved' = Unserved
        /\ Cut(Work)' = Cut(Work)
        /\ Cut(HTTPRequests)' = Cut(HTTPRequests)
        /\ Cut(RPCs)' = Cut(RPCs)
  BY FactsUnchanged
<1>r. /\ Unserved => Quiet(RPCs)
      /\ Cut(HTTPRequests) \/ Cut(RPCs) => Cut(Work)
  BY DEF Unserved, Quiet, Cut, Work
<1>1. CASE ValidateConfig
  BY <1>1, <1>q, LifecycleAssumption
  DEF ValidateConfig, Return, servers, IInv, TypeOK, WoundDown, Over, ClosedByWaiter, Drained, CutsKnown,
        ErrorsKnown, NotLaunched, ServerFailed, Stopping, GRPCStopping
<1>2. CASE ConnectDatabase
  BY <1>2, <1>q, LifecycleAssumption
  DEF ConnectDatabase, Return, servers, IInv, TypeOK, WoundDown, Over, ClosedByWaiter, Drained, CutsKnown,
        ErrorsKnown, NotLaunched, ServerFailed, Stopping, GRPCStopping
<1>3. CASE Launch
  BY <1>3, <1>q, LifecycleAssumption
  DEF Launch, servers, IInv, TypeOK, WoundDown, Over, ClosedByWaiter, Drained, CutsKnown,
        ErrorsKnown, NotLaunched, ServerFailed, Stopping, GRPCStopping
<1>4. CASE HTTPListens
  BY <1>4, <1>q, LifecycleAssumption
  DEF HTTPListens, servers, IInv, TypeOK, WoundDown, Over, ClosedByWaiter, Drained, CutsKnown,
        ErrorsKnown, NotLaunched, ServerFailed, Stopping, GRPCStopping
<1>5. CASE HTTPCloses
  BY <1>5, <1>q, LifecycleAssumption
  DEF HTTPCloses, servers, IInv, TypeOK, WoundDown, Over, ClosedByWaiter, Drained, CutsKnown,
        ErrorsKnown, NotLaunched, ServerFailed, Stopping, GRPCStopping
<1>6. CASE GRPCListens
  BY <1>6, <1>q, LifecycleAssumption
  DEF GRPCListens, servers, IInv, TypeOK, WoundDown, Over, ClosedByWaiter, Drained, CutsKnown,
        ErrorsKnown, NotLaunched, ServerFailed, Stopping, GRPCStopping
<1>7. CASE GRPCServes
  BY <1>7, <1>q, LifecycleAssumption
  DEF GRPCServes, servers, IInv, TypeOK, WoundDown, Over, ClosedByWaiter, Drained, CutsKnown,
        ErrorsKnown, NotLaunched, ServerFailed, Stopping, GRPCStopping
<1>8. CASE GRPCServesTooLate
  BY <1>8, <1>q, LifecycleAssumption
  DEF GRPCServesTooLate, GRPCReturnsError, servers, IInv, TypeOK, WoundDown, Over, ClosedByWaiter, Drained, CutsKnown,
        ErrorsKnown, NotLaunched, ServerFailed, Stopping, GRPCStopping
<1>9. CASE GRPCCloses
  BY <1>9, <1>q, LifecycleAssumption
  DEF GRPCCloses, servers, IInv, TypeOK, WoundDown, Over, ClosedByWaiter, Drained, CutsKnown,
        ErrorsKnown, NotLaunched, ServerFailed, Stopping, GRPCStopping
<1>10. CASE SeesSignal
  <2>0. /\ TypeOK /\ WoundDown /\ ClosedByWaiter /\ Drained /\ CutsKnown
        /\ ErrorsKnown /\ NotLaunched
        /\ waiter = "waiting" /\ waiter' = "stoppingHTTP"
        /\ UNCHANGED <<main, result, cluster, http, grpc, cancelled, work, withGRPC>>
        /\ graceOver' \in BOOLEAN /\ quit' \in BOOLEAN
    BY <1>10 DEF SeesSignal, IInv, TypeOK
  <2>1. TypeOK'
    BY <2>0 DEF TypeOK
  <2>2. WoundDown'
    BY <2>0 DEF WoundDown, Over
  <2>3. ClosedByWaiter'
    BY <2>0 DEF ClosedByWaiter, Stopping
  <2>4. Drained' /\ CutsKnown'
    BY <2>0, <1>q DEF Drained, CutsKnown, GRPCStopping
  <2>5. ErrorsKnown' /\ NotLaunched'
    BY <2>0 DEF ErrorsKnown, NotLaunched, ServerFailed
  <2> QED
    BY <2>1, <2>2, <2>3, <2>4, <2>5 DEF IInv
<1>11. CASE SeesServerError
  BY <1>11, <1>q, LifecycleAssumption
  DEF SeesServerError, servers, IInv, TypeOK, WoundDown, Over, ClosedByWaiter, Drained, CutsKnown,
        ErrorsKnown, NotLaunched, ServerFailed, Stopping, GRPCStopping
<1>12. CASE StopHTTP
  BY <1>12, <1>q, <1>r, LifecycleAssumption
  DEF StopHTTP, ShutdownReturns, servers, IInv, TypeOK, WoundDown, Over, ClosedByWaiter, Drained, CutsKnown,
        ErrorsKnown, NotLaunched, ServerFailed, Stopping, GRPCStopping
<1>13. CASE StopGRPC
  BY <1>13, <1>q, <1>r, LifecycleAssumption
  DEF StopGRPC, servers, IInv, TypeOK, WoundDown, Over, ClosedByWaiter, Drained, CutsKnown,
        ErrorsKnown, NotLaunched, ServerFailed, Stopping, GRPCStopping
<1>14. CASE WaitReturns
  BY <1>14, <1>q, LifecycleAssumption
  DEF WaitReturns, servers, IInv, TypeOK, WoundDown, Over, ClosedByWaiter, Drained, CutsKnown,
        ErrorsKnown, NotLaunched, ServerFailed, Stopping, GRPCStopping
<1>15. CASE CloseCluster
  BY <1>15, <1>q, LifecycleAssumption
  DEF CloseCluster, servers, IInv, TypeOK, WoundDown, Over, ClosedByWaiter, Drained, CutsKnown,
        ErrorsKnown, NotLaunched, ServerFailed, Stopping, GRPCStopping
<1>16. CASE HTTPFails
  BY <1>16, <1>q, LifecycleAssumption
  DEF HTTPFails, servers, IInv, TypeOK, WoundDown, Over, ClosedByWaiter, Drained, CutsKnown,
        ErrorsKnown, NotLaunched, ServerFailed, Stopping, GRPCStopping
<1>17. CASE GRPCFails
  BY <1>17, <1>q, LifecycleAssumption
  DEF GRPCFails, GRPCReturnsError, servers, IInv, TypeOK, WoundDown, Over, ClosedByWaiter, Drained, CutsKnown,
        ErrorsKnown, NotLaunched, ServerFailed, Stopping, GRPCStopping
<1>18. CASE DeadlinePasses
  BY <1>18, <1>q, LifecycleAssumption
  DEF DeadlinePasses, servers, IInv, TypeOK, WoundDown, Over, ClosedByWaiter, Drained, CutsKnown,
        ErrorsKnown, NotLaunched, ServerFailed, Stopping, GRPCStopping
<1>19. CASE Signal
  BY <1>19, <1>q, LifecycleAssumption
  DEF Signal, servers, IInv, TypeOK, WoundDown, Over, ClosedByWaiter, Drained, CutsKnown,
        ErrorsKnown, NotLaunched, ServerFailed, Stopping, GRPCStopping
<1>20. CASE SignalTooEarly
  BY <1>20, <1>q, LifecycleAssumption
  DEF SignalTooEarly, Return, servers, IInv, TypeOK, WoundDown, Over, ClosedByWaiter, Drained, CutsKnown,
        ErrorsKnown, NotLaunched, ServerFailed, Stopping, GRPCStopping
<1>21. CASE Exit
  <2>0. TypeOK
    BY DEF IInv
  <2>1. /\ Quiet(HTTPRequests)' /\ Quiet(RPCs)'
        /\ Unserved => Unserved'
        /\ Quiet(HTTPRequests) /\ ~Cut(HTTPRequests) => ~Cut(HTTPRequests)'
        /\ Quiet(RPCs) /\ ~Cut(RPCs) => ~Cut(RPCs)'
    BY <1>21, <2>0, ExitSteps
  <2>2. TypeOK'
    BY <1>21 DEF Exit, AtExit, servers, IInv, TypeOK
  <2>3. /\ main = "flushing" /\ main' = "exited"
        /\ UNCHANGED <<result, cluster, http, grpc, waiter, cancelled, quit,
                      graceOver, withGRPC>>
    BY <1>21 DEF Exit, servers
  <2>4. Over /\ cluster = "closed"
    BY <2>3 DEF IInv, WoundDown
  <2>5. WoundDown' /\ ClosedByWaiter' /\ NotLaunched'
    BY <2>3, <2>4 DEF IInv, WoundDown, Over, ClosedByWaiter, NotLaunched, Stopping
  <2>6. Drained'
    BY <2>1, <2>3 DEF IInv, Drained, GRPCStopping
  <2>7. CutsKnown'
    <3>1. waiter \in {"done", "gaveUp"}
      BY <2>4 DEF Over
    <3>2. waiter = "done" => Quiet(RPCs) /\ (Quiet(HTTPRequests) \/ graceOver)
      BY DEF IInv, Drained, GRPCStopping
    <3>3. ~Cut(HTTPRequests) /\ ~Cut(RPCs)
      BY <2>3 DEF IInv, CutsKnown, Cut, Work
    <3>4. QED
      BY <2>1, <2>3, <3>1, <3>2, <3>3 DEF CutsKnown
  <2>8. ErrorsKnown'
    BY <2>3 DEF IInv, ErrorsKnown, ServerFailed
  <2> QED
    BY <2>2, <2>5, <2>6, <2>7, <2>8 DEF IInv
<1>22. ASSUME NEW w \in Work, HangUp(w) \/ Arrive(w) \/ Finish(w) PROVE IInv'
  <2>0. TypeOK
    BY DEF IInv
  <2>1. /\ Quiet(HTTPRequests) => Quiet(HTTPRequests)'
        /\ Quiet(RPCs) => Quiet(RPCs)'
        /\ Unserved => Unserved'
        /\ Cut(Work)' => Cut(Work)
        /\ Cut(HTTPRequests)' => Cut(HTTPRequests)
        /\ Cut(RPCs)' => Cut(RPCs)
        /\ TypeOK'
        /\ UNCHANGED <<main, result, cluster, withGRPC, servers>>
    BY <1>22, <2>0, WorkSteps
  <2> QED
    BY <2>1
    DEF servers, IInv, WoundDown, Over, ClosedByWaiter, Drained, CutsKnown,
        ErrorsKnown, NotLaunched, ServerFailed, Stopping, GRPCStopping
<1>23. ASSUME NEW w \in Work, Connect(w) PROVE IInv'
  <2>0. TypeOK
    BY DEF IInv
  <2>1. /\ w \notin HTTPRequests /\ Quiet(HTTPRequests) => Quiet(HTTPRequests)'
        /\ w \notin RPCs /\ Quiet(RPCs) => Quiet(RPCs)'
        /\ w \notin RPCs /\ Unserved => Unserved'
        /\ Cut(Work)' => Cut(Work)
        /\ Cut(HTTPRequests)' => Cut(HTTPRequests)
        /\ Cut(RPCs)' => Cut(RPCs)
        /\ TypeOK'
    BY <1>23, <2>0, ConnectSteps
  <2>2. UNCHANGED <<main, result, cluster, withGRPC, servers>>
    BY <1>23 DEF Connect
  <2>3. Drained'
    <3>1. CASE w \in HTTPRequests /\ ~Stopping
      BY <2>1, <2>2, <3>1, LifecycleAssumption
      DEF servers, IInv, Drained, Stopping, GRPCStopping
    <3>2. CASE w \in RPCs /\ grpc = "serving" /\ ~GRPCStopping
      BY <2>1, <2>2, <3>2, LifecycleAssumption
      DEF servers, IInv, Drained, GRPCStopping
    <3>3. QED
      BY <1>23, <3>1, <3>2 DEF Connect
  <2> QED
    BY <2>1, <2>2, <2>3
    DEF servers, IInv, WoundDown, Over, ClosedByWaiter, CutsKnown,
        ErrorsKnown, NotLaunched, ServerFailed, Stopping
<1>24. CASE UNCHANGED vars
  BY <1>24, <1>q
  DEF vars, IInv, TypeOK, WoundDown, Over, ClosedByWaiter, Drained, CutsKnown,
        ErrorsKnown, NotLaunched, ServerFailed, Stopping, GRPCStopping
<1> QED
  BY <1>1, <1>2, <1>3, <1>4, <1>5, <1>6, <1>7, <1>8, <1>9, <1>10, <1>11, <1>12,
     <1>13, <1>14, <1>15, <1>16, <1>17, <1>18, <1>19, <1>20, <1>21, <1>22, <1>23, <1>24
  DEF Next, Boot, HTTPServer, GRPCServer, Waiter, WindDown

\* What holds of the goroutines, the pools and the requests in every state.
THEOREM Inductive == Spec => []IInv
BY InitIInv, NextIInv, PTL DEF Spec

\* Every variable keeps its type.
THEOREM TypeCorrect == Spec => []TypeOK
<1>1. IInv => TypeOK
  BY DEF IInv
<1> QED BY <1>1, Inductive, PTL

\* The pools are closed under a handler only if it outlived the deadline or
\* its server failed (server.go:108, 300-311).
THEOREM PoolsCloseLast == Spec => []DatabaseOutlivesHandlers
<1>1. IInv => DatabaseOutlivesHandlers
  <2> SUFFICES ASSUME IInv, cluster = "closed" PROVE DatabaseOutlivesHandlers
    BY DEF DatabaseOutlivesHandlers
  <2>1. Over
    BY DEF IInv, WoundDown
  <2>2. CASE waiter = "done"
    BY <2>2 DEF IInv, Drained, GRPCStopping, DatabaseOutlivesHandlers
  <2>3. CASE waiter = "gaveUp"
    <3>1. http = "failed"
      BY <2>1, <2>3 DEF IInv, ClosedByWaiter, Over, Stopping
    <3>2. grpc = "failed" \/ Unserved
      BY <2>1, <2>3 DEF IInv, ClosedByWaiter, Drained, Over
    <3>3. Unserved => Quiet(RPCs)
      BY DEF Unserved, Quiet
    <3> QED BY <3>1, <3>2, <3>3 DEF DatabaseOutlivesHandlers
  <2> QED BY <2>1, <2>2, <2>3 DEF Over
<1> QED BY <1>1, Inductive, PTL

\* A stop without a failed server cuts no RPC and no request within the
\* deadline, and exits with 1 only if it overtook the start of the gRPC server,
\* which then has not served anybody (server.go:267-311).
THEOREM CleanStopsAreClean == Spec => []CleanStop
<1>1. IInv => CleanStop
  <2> SUFFICES ASSUME IInv, main = "exited", waiter = "done", ~ServerFailed
               PROVE  /\ ~Cut(RPCs)
                      /\ Cut(HTTPRequests) => graceOver
                      /\ result = "error" => grpc = "tooLate" /\ Unserved
    BY DEF CleanStop, Cut, Unserved
  <2>1. ~Cut(RPCs) /\ (Cut(HTTPRequests) => graceOver)
    BY DEF IInv, CutsKnown
  <2>2. result = "error" => grpc = "tooLate"
    BY DEF IInv, ErrorsKnown
  <2>3. grpc = "tooLate" => Unserved
    BY DEF IInv, Drained
  <2> QED
    BY <2>1, <2>2, <2>3
<1> QED BY <1>1, Inductive, PTL
=============================================================================
