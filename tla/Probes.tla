------------------------------- MODULE Probes -------------------------------
(***************************************************************************)
(* The metrics and probe server of internal/metrics/server.go, composed    *)
(* with the life of the process (Service): the goroutine of Serve, the one *)
(* that accepts connections, and the handler of /readyz, which evaluates   *)
(* the ready function of run while the connection and the service change   *)
(* under it.  run starts the server when the listener is bound and never   *)
(* waits for it.  net/http is not part of the repository.                  *)
(***************************************************************************)
EXTENDS Service

CONSTANTS MaxConns  \* bound: client connections open at a time

ASSUME ProbesAssumption == MaxConns \in Nat \ {0}

VARIABLES
  server,      \* control of Serve
  accept,      \* control of the goroutine that runs srv.Serve
  errCh,       \* an error is buffered, capacity 1
  open,        \* client connections
  probe,       \* the conjunct of ready the handler evaluates next, 0 if none
  wasReady     \* history: all of ready held at one of the handler's reads

serveVars == <<server, accept, errCh>>
probeVars == <<probe, wasReady>>
serverVars == <<serveVars, open, probeVars>>

ServerInit ==
  /\ server = "off" /\ accept = "off" /\ errCh = FALSE
  /\ open = 0 /\ probe = 0 /\ wasReady = FALSE

ProbesInit == Init /\ ServerInit

\* The step of run past the listener: with metrics enabled it starts Serve.
Listened ==
  \/ UNCHANGED serverVars
  \/ /\ server' = "select" /\ accept' = "serving"
     /\ UNCHANGED <<errCh, open, probeVars>>

ProcessStep ==
  /\ Next
  /\ IF phase = "listen" /\ phase' = "connect" THEN Listened ELSE UNCHANGED serverVars

-----------------------------------------------------------------------------
\* srv.Serve returns an error of its own, which goes to errCh.
AcceptFails ==
  /\ accept = "serving" /\ accept' = "failed"
  /\ UNCHANGED <<server, errCh, open, probeVars>>

SendErr ==
  /\ accept = "failed" /\ accept' = "ended"
  /\ errCh' = TRUE
  /\ UNCHANGED <<server, open, probeVars>>

\* The select of Serve.  Shutdown ends srv.Serve with ErrServerClosed.
ServeDone ==
  /\ server = "select" /\ cancelled
  /\ server' = "shutdown"
  /\ accept' = IF accept = "serving" THEN "ended" ELSE accept
  /\ UNCHANGED <<errCh, open, probeVars>>

ServeErr ==
  /\ server = "select" /\ errCh
  /\ server' = "returned" /\ errCh' = FALSE
  /\ UNCHANGED <<accept, open, probeVars>>

\* Shutdown waits for the connections, for shutdownTimeout; then Close.
Drained ==
  /\ server = "shutdown" /\ open = 0 /\ probe = 0
  /\ server' = "returned"
  /\ UNCHANGED <<accept, errCh, open, probeVars>>

DrainTimesOut ==
  /\ server = "shutdown"
  /\ server' = "returned" /\ open' = 0
  /\ UNCHANGED <<accept, errCh, probeVars>>

\* Clients come and go, some without ever sending a request.
Dial ==
  /\ accept = "serving" /\ open < MaxConns /\ open' = open + 1
  /\ UNCHANGED <<serveVars, probeVars>>

HangUp ==
  /\ open > 0 /\ open' = open - 1
  /\ UNCHANGED <<serveVars, probeVars>>

-----------------------------------------------------------------------------
\* Mutant of Conjunct: the service is looked at before the connection.
ConjunctSwapped(i) ==
  CASE i = 1 -> started
    [] i = 2 -> svc # "stopped"
    [] i = 3 -> conn = "connected"

\* ready: started.Load() && nc.Status() == nats.CONNECTED && !Stopped().
Conjunct(i) ==
  CASE i = 1 -> started
    [] i = 2 -> conn = "connected"
    [] i = 3 -> svc # "stopped"

\* A GET of /readyz.
ProbeBegins ==
  /\ open > 0 /\ probe = 0
  /\ probe' = 1 /\ wasReady' = FALSE
  /\ UNCHANGED <<serveVars, open>>

\* The handler reads, one conjunct after the other; a false one answers 503.
ProbeReads ==
  /\ probe \in 1..3
  /\ probe' = IF Conjunct(probe) THEN probe + 1 ELSE 0
  /\ wasReady' = (wasReady \/ (started /\ conn = "connected" /\ svc = "running"))
  /\ UNCHANGED <<serveVars, open>>

\* 200.
ProbeOk ==
  /\ probe = 4 /\ probe' = 0
  /\ UNCHANGED <<serveVars, open, wasReady>>

ServerStep ==
  /\ Running
  /\ \/ AcceptFails \/ SendErr \/ ServeDone \/ ServeErr \/ Drained \/ DrainTimesOut
     \/ Dial \/ HangUp
     \/ ProbeBegins \/ ProbeReads \/ ProbeOk
  /\ UNCHANGED vars

ProbesNext == ProcessStep \/ ServerStep

\* The fairness of Service: no progress is assumed of the server or its clients.
ProbesSpec ==
  /\ ProbesInit
  /\ [][ProbesNext]_<<vars, serverVars>>
  /\ WF_vars(Run) /\ \A e \in Event : WF_vars(Callback(e))

-----------------------------------------------------------------------------
\* "`/readyz` (readiness) answers 200 only while the NATS connection is up and the
\* callout service is running" (src/README.md:448-449): although the handler reads
\* three things at three moments, at one of these moments all of them held,
\* because a stopped service stays stopped and is read last.  Whether the
\* subscription is still there is neither read nor promised by that sentence.
ReadyAnswerHonest == probe = 4 => wasReady

-----------------------------------------------------------------------------
\* What the proof adds: a service that is not assigned yet cannot pass for one
\* that is running, and what the first two reads have established by the third.
ProbesInv ==
  /\ probe \in 0..4
  /\ started => phase \in {"select", "stop", "drain", "close", "exited"}
  /\ probe \in 2..4 => started
  /\ probe = 3 => wasReady \/ svc = "stopped"
  /\ ReadyAnswerHonest
=============================================================================
