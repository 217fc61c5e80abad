------------------------------ MODULE Service -------------------------------
(***************************************************************************)
(* The life of the process: run, connectNATS and stopService of            *)
(* cmd/nats-oidc-callout/main.go.  The goroutine of run goes through       *)
(* startup, waits in its select, and stops; meanwhile the NATS client      *)
(* reconnects or gives up, the broker revokes the subscription, the micro  *)
(* service fails, requests are delivered to the callout library's worker   *)
(* channel, and SIGTERM arrives at any moment.                             *)
(*                                                                         *)
(* nats.go and callout.go are not part of the repository; their actions    *)
(* say what the code in main.go and its tests rely on.                     *)
(***************************************************************************)
EXTENDS Integers

CONSTANTS
  MaxDeliveries  \* bound: deliveries in their subscription callback at a time

ASSUME ServiceAssumption == MaxDeliveries \in Nat \ {0}

VARIABLES
  phase,       \* where run is
  exit,        \* what run returns, or how else the process ends
  cancelled,   \* ctx.Done(): shutdown was requested
  conn,        \* status of nc, "none" before it is assigned
  sub,         \* the subscription to the auth callout subject
  svc,         \* svc.Service, "none" before it is assigned
  started,     \* started.Load()
  natsFailed, svcFailed,  \* an error is buffered in the channel, capacity 1
  events,      \* asynchronous callbacks of nats.go not yet run
  cb,          \* deliveries inside their callback
  workers,     \* the callout library's worker channel
  fault        \* history: something of the service or its environment failed

connVars == <<conn, sub, svc>>
chanVars == <<natsFailed, svcFailed>>
libVars == <<events, cb, workers>>
vars == <<phase, exit, cancelled, connVars, started, chanVars, libVars, fault>>

Phase == {"load", "discover", "listen", "connect", "create", "created", "select",
          "stop", "drain", "close", "exited"}
Event == {"closed", "revoked", "service"}

Init ==
  /\ phase = "load" /\ exit = "none" /\ cancelled = FALSE
  /\ conn = "none" /\ sub = "none" /\ svc = "none" /\ started = FALSE
  /\ natsFailed = FALSE /\ svcFailed = FALSE
  /\ events = {} /\ cb = 0 /\ workers = "none"
  /\ fault = FALSE

Running == phase # "exited"

\* run returns before anything has to be stopped.
ReturnEarly(result) == phase' = "exited" /\ exit' = result

\* run returns; the deferred stopService comes next.
Return(result) == phase' = "stop" /\ exit' = result

-----------------------------------------------------------------------------
\* Startup.  Every step may fail and end the process with an error; until the
\* connection exists nothing has to be stopped.
StartupFails ==
  /\ phase \in {"load", "discover", "listen", "connect"}
  /\ ReturnEarly("error")
  /\ fault' = TRUE
  /\ UNCHANGED <<cancelled, connVars, started, chanVars, libVars>>

\* Shutdown is requested while the issuers are discovered with its context.
DiscoveryCancelled ==
  /\ phase = "discover" /\ cancelled
  /\ ReturnEarly("error")
  /\ UNCHANGED <<cancelled, connVars, started, chanVars, libVars, fault>>

\* config.Load and the seeds; signal.NotifyContext.
LoadConfig ==
  /\ phase = "load" /\ phase' = "discover"
  /\ UNCHANGED <<exit, cancelled, connVars, started, chanVars, libVars, fault>>

\* buildVerifier.
Discover ==
  /\ phase = "discover" /\ phase' = "listen"
  /\ UNCHANGED <<exit, cancelled, connVars, started, chanVars, libVars, fault>>

\* The metrics listener, when enabled.
Listen ==
  /\ phase = "listen" /\ phase' = "connect"
  /\ UNCHANGED <<exit, cancelled, connVars, started, chanVars, libVars, fault>>

Connect ==
  /\ phase = "connect" /\ phase' = "create"
  /\ conn' = "connected"
  /\ UNCHANGED <<exit, cancelled, sub, svc, started, chanVars, libVars, fault>>

\* NewAuthorizationService: the micro service subscribes, the workers start.
CreateService ==
  /\ phase = "create" /\ phase' = "created"
  /\ conn # "closed"
  /\ svc' = "running" /\ sub' = "active" /\ workers' = "open"
  /\ UNCHANGED <<exit, cancelled, conn, started, chanVars, events, cb, fault>>

CreateServiceFails ==
  /\ phase = "create"
  /\ Return("error")
  /\ fault' = TRUE
  /\ UNCHANGED <<cancelled, connVars, started, chanVars, libVars>>

\* Mutant of MarkStarted: ready before the service is created.
MarkStartedEarly ==
  /\ \/ phase = "create" /\ ~started /\ UNCHANGED phase
     \/ phase = "created" /\ phase' = "select"
  /\ started' = TRUE
  /\ UNCHANGED <<exit, cancelled, connVars, chanVars, libVars, fault>>

\* started.Store(true), and the reload watcher starts (module Reload).
MarkStarted ==
  /\ phase = "created" /\ phase' = "select"
  /\ started' = TRUE
  /\ UNCHANGED <<exit, cancelled, connVars, chanVars, libVars, fault>>

\* The select of run: any ready case.
SelectDone ==
  /\ phase = "select" /\ cancelled
  /\ Return("ok")
  /\ UNCHANGED <<cancelled, connVars, started, chanVars, libVars, fault>>

\* Mutant of SelectFailed: a failure shuts down as if it was asked for.
SelectFailedQuietly ==
  /\ phase = "select"
  /\ \/ natsFailed /\ natsFailed' = FALSE /\ UNCHANGED svcFailed
     \/ svcFailed /\ svcFailed' = FALSE /\ UNCHANGED natsFailed
  /\ Return("ok")
  /\ UNCHANGED <<cancelled, connVars, started, libVars, fault>>

SelectFailed ==
  /\ phase = "select"
  /\ \/ natsFailed /\ natsFailed' = FALSE /\ UNCHANGED svcFailed
     \/ svcFailed /\ svcFailed' = FALSE /\ UNCHANGED natsFailed
  /\ Return("error")
  /\ UNCHANGED <<cancelled, connVars, started, libVars, fault>>

-----------------------------------------------------------------------------
\* Mutant of Drain: svc.Stop first, which closes the worker channel.
StopAndDrain ==
  /\ phase = "stop"
  /\ IF conn = "connected"
     THEN phase' = "drain" /\ conn' = "draining" /\ UNCHANGED events
     ELSE /\ phase' = "close" /\ conn' = "closed"
          /\ events' = events \cup (IF conn = "closed" THEN {} ELSE {"closed"})
  /\ workers' = IF workers = "open" THEN "closed" ELSE workers
  /\ UNCHANGED <<exit, cancelled, sub, svc, started, chanVars, cb, fault>>

\* stopService.  Drain refuses a connection that is closed, and closes one that
\* is reconnecting.
Drain ==
  /\ phase = "stop"
  /\ IF conn = "connected"
     THEN phase' = "drain" /\ conn' = "draining" /\ UNCHANGED events
     ELSE /\ phase' = "close" /\ conn' = "closed"
          /\ events' = events \cup (IF conn = "closed" THEN {} ELSE {"closed"})
  /\ UNCHANGED <<exit, cancelled, sub, svc, started, chanVars, cb, workers, fault>>

\* The loop ends when the connection is closed or after shutdownDrainTimeout.
PollClosed ==
  /\ phase = "drain" /\ conn = "closed" /\ phase' = "close"
  /\ UNCHANGED <<exit, cancelled, connVars, started, chanVars, libVars, fault>>

\* Mutant of PollTimeout: the loop has no deadline.
PollTimeoutNever ==
  /\ phase = "drain" /\ conn = "closed" /\ phase' = "close"
  /\ UNCHANGED <<exit, cancelled, connVars, started, chanVars, libVars, fault>>

PollTimeout ==
  /\ phase = "drain" /\ phase' = "close"
  /\ UNCHANGED <<exit, cancelled, connVars, started, chanVars, libVars, fault>>

\* nc.Close ends every delivery; the process ends with its workers.
Close ==
  /\ phase = "close" /\ phase' = "exited"
  /\ conn' = "closed"
  /\ UNCHANGED <<exit, cancelled, sub, svc, started, chanVars, libVars, fault>>

Run ==
  \/ StartupFails \/ DiscoveryCancelled \/ LoadConfig \/ Discover \/ Listen \/ Connect
  \/ CreateService \/ CreateServiceFails \/ MarkStarted
  \/ SelectDone \/ SelectFailed
  \/ Drain \/ PollClosed \/ PollTimeout \/ Close

-----------------------------------------------------------------------------
\* SIGINT or SIGTERM, before and after signal.NotifyContext.
Kill ==
  /\ phase = "load"
  /\ ReturnEarly("killed")
  /\ UNCHANGED <<cancelled, connVars, started, chanVars, libVars, fault>>

Terminate ==
  /\ Running /\ phase # "load" /\ ~cancelled
  /\ cancelled' = TRUE
  /\ UNCHANGED <<phase, exit, connVars, started, chanVars, libVars, fault>>

\* nats.go: the connection is lost and found again, which resubscribes.
Disconnect ==
  /\ Running /\ conn = "connected" /\ conn' = "reconnecting"
  /\ UNCHANGED <<phase, exit, cancelled, sub, svc, started, chanVars, libVars, fault>>

Reconnect ==
  /\ Running /\ conn = "reconnecting" /\ conn' = "connected"
  /\ sub' = IF sub = "revoked" THEN "active" ELSE sub
  /\ UNCHANGED <<phase, exit, cancelled, svc, started, chanVars, libVars, fault>>

\* nats.go closes the connection for good: its credentials were rejected twice,
\* or a drain ended, in order (its callbacks done) or by a disconnect.
GiveUp ==
  /\ Running /\ conn = "reconnecting"
  /\ conn' = "closed" /\ events' = events \cup {"closed"} /\ fault' = TRUE
  /\ UNCHANGED <<phase, exit, cancelled, sub, svc, started, chanVars, cb, workers>>

DrainEnds ==
  /\ Running /\ conn = "draining"
  /\ conn' = "closed" /\ events' = events \cup {"closed"}
  /\ UNCHANGED <<phase, exit, cancelled, sub, svc, started, chanVars, cb, workers, fault>>

\* The broker revokes the subscription; the connection stays up.
Revoke ==
  /\ Running /\ conn = "connected" /\ sub = "active"
  /\ sub' = "revoked" /\ events' = events \cup {"revoked"} /\ fault' = TRUE
  /\ UNCHANGED <<phase, exit, cancelled, conn, svc, started, chanVars, cb, workers>>

\* The micro service fails, stops itself and reports ErrService.
ServiceFails ==
  /\ Running /\ svc = "running"
  /\ svc' = "stopped" /\ events' = events \cup {"service"} /\ fault' = TRUE
  /\ UNCHANGED <<phase, exit, cancelled, conn, sub, started, chanVars, cb, workers>>

\* Mutant of Callback: the channels are unbuffered, so only a select that is
\* already waiting receives.
CallbackUnbuffered(e) ==
  /\ Running /\ e \in events
  /\ events' = events \ {e}
  /\ natsFailed' = (natsFailed \/ (phase = "select" /\ e \in {"closed", "revoked"}))
  /\ svcFailed' = (svcFailed \/ (phase = "select" /\ e = "service"))
  /\ UNCHANGED <<phase, exit, cancelled, connVars, started, cb, workers, fault>>

\* The handlers of connectNATS and the ErrCallback of run: put an error in the
\* buffer, drop it when one is there.
Callback(e) ==
  /\ Running /\ e \in events
  /\ events' = events \ {e}
  /\ natsFailed' = (natsFailed \/ e \in {"closed", "revoked"})
  /\ svcFailed' = (svcFailed \/ e = "service")
  /\ UNCHANGED <<phase, exit, cancelled, connVars, started, cb, workers, fault>>

\* callout.go: a request is delivered, and its callback hands it to the workers.
\* Sending on a closed channel panics.
Deliver ==
  /\ Running /\ conn \in {"connected", "draining"} /\ sub = "active" /\ svc = "running"
  /\ cb < MaxDeliveries /\ cb' = cb + 1
  /\ UNCHANGED <<phase, exit, cancelled, connVars, started, chanVars, events, workers, fault>>

Enqueue ==
  /\ Running /\ cb > 0 /\ cb' = cb - 1
  /\ IF workers = "closed"
     THEN phase' = "exited" /\ exit' = "panic"
     ELSE UNCHANGED <<phase, exit>>
  /\ UNCHANGED <<cancelled, connVars, started, chanVars, events, workers, fault>>

Environment ==
  \/ Kill \/ Terminate
  \/ Disconnect \/ Reconnect \/ GiveUp \/ DrainEnds \/ Revoke \/ ServiceFails
  \/ Deliver \/ Enqueue

Next ==
  \/ Run
  \/ Environment
  \/ \E e \in Event : Callback(e)

Spec == Init /\ [][Next]_vars

\* The goroutine of run and the callbacks of nats.go are scheduled.  Discovery,
\* dialling and the drain are bounded by timeouts, so Run's steps end; nothing
\* is assumed of the broker, of a drain, or of a delivery.
FairSpec == Spec /\ WF_vars(Run) /\ \A e \in Event : WF_vars(Callback(e))

-----------------------------------------------------------------------------
TypeOK ==
  /\ phase \in Phase
  /\ exit \in {"none", "ok", "error", "killed", "panic"}
  /\ cancelled \in BOOLEAN /\ started \in BOOLEAN /\ fault \in BOOLEAN
  /\ conn \in {"none", "connected", "reconnecting", "draining", "closed"}
  /\ sub \in {"none", "active", "revoked"}
  /\ svc \in {"none", "running", "stopped"}
  /\ natsFailed \in BOOLEAN /\ svcFailed \in BOOLEAN
  /\ events \subseteq Event
  /\ cb \in 0..MaxDeliveries
  /\ workers \in {"none", "open", "closed"}

\* "nc and svc are only read once started is set, after both are assigned": a
\* readiness probe at any moment never follows a nil pointer.
ProbeSafe == started => conn # "none" /\ svc # "none"

\* "Leaving the channel open makes the panic impossible": no delivery, however
\* late, ends the process by sending on a closed channel.
NoSendOnClosed == exit # "panic"

\* The supervisor restarts what failed: a process that ends without being asked
\* to ends with an error, and one that ends with success was asked to.
ExitTellsFailure ==
  /\ exit = "ok" => cancelled
  /\ phase = "exited" /\ ~cancelled /\ exit # "killed" => exit = "error" /\ fault

\* No live process that can no longer authorize anyone: once the connection is
\* closed, the subscription revoked or the service stopped, the process ends,
\* even if that happened before run reached its select.
DeadInstanceExits ==
  (started /\ (conn = "closed" \/ sub = "revoked" \/ svc = "stopped"))
    ~> phase = "exited"

\* Once shutdown is requested the process ends, whatever the broker does, and
\* even when the drain never completes.
ShutdownCompletes == cancelled ~> phase = "exited"

-----------------------------------------------------------------------------
\* What the proofs add to make the safety properties above inductive.
Lifecycle ==
  /\ workers # "closed"
  /\ phase \in {"load", "discover", "listen", "connect"} => conn = "none"
  /\ phase \in {"create", "created", "select", "stop", "drain", "close"} => conn # "none"
  /\ phase \in {"created", "select"} => svc # "none"
  /\ phase \in {"stop", "drain", "close"} => exit \in {"ok", "error"}
  /\ phase \notin {"stop", "drain", "close", "exited"} => exit = "none"
  /\ events # {} \/ natsFailed \/ svcFailed =>
       fault \/ phase \in {"stop", "drain", "close", "exited"}
  /\ exit = "error" => fault \/ cancelled
  /\ conn \in {"draining", "closed"} => fault \/ phase \in {"drain", "close", "exited"}

IInv == TypeOK /\ ProbeSafe /\ NoSendOnClosed /\ ExitTellsFailure /\ Lifecycle

=============================================================================
