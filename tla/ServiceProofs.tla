--------------------------- MODULE ServiceProofs ----------------------------
(***************************************************************************)
(* The safety of Service: the probe never follows a nil pointer, the       *)
(* worker channel is never closed under a delivery, and the exit status    *)
(* tells the supervisor the truth; and of its composition with the metrics *)
(* server: the readiness probe tells the truth too.                        *)
(***************************************************************************)
EXTENDS Probes, TLAPS

USE DEF connVars, chanVars, libVars

\* The callbacks the model knows.
LEMMA EventNames == "closed" \in Event /\ "revoked" \in Event /\ "service" \in Event
BY DEF Event

\* The process starts with nothing assigned.
LEMMA InitInvariant == Init => IInv
<1> SUFFICES ASSUME Init PROVE IInv
  OBVIOUS
<1>1. TypeOK
  <2>1. /\ cancelled \in BOOLEAN /\ started \in BOOLEAN /\ fault \in BOOLEAN
        /\ natsFailed \in BOOLEAN /\ svcFailed \in BOOLEAN
    BY DEF Init
  <2>2. cb \in 0..MaxDeliveries
    BY ServiceAssumption DEF Init
  <2> QED
    BY <2>1, <2>2 DEF Init, TypeOK, Phase
<1>2. ProbeSafe /\ NoSendOnClosed /\ ExitTellsFailure /\ Lifecycle
  BY DEF Init, ProbeSafe, NoSendOnClosed, ExitTellsFailure, Lifecycle
<1> QED
  BY <1>1, <1>2 DEF IInv

\* Startup assigns the connection, then the service, then sets started; what
\* fails on the way is a fault.
LEMMA StartupStep ==
  ASSUME IInv,
         \/ StartupFails \/ DiscoveryCancelled \/ LoadConfig \/ Discover \/ Listen
         \/ Connect \/ CreateService \/ CreateServiceFails \/ MarkStarted
  PROVE  IInv'
<1> USE DEF IInv, Phase, ReturnEarly, Return
<1>1. TypeOK'
  BY DEF TypeOK, StartupFails, DiscoveryCancelled, LoadConfig, Discover, Listen, Connect,
     CreateService, CreateServiceFails, MarkStarted
<1>2. CASE StartupFails \/ DiscoveryCancelled
  BY <1>1, <1>2 DEF StartupFails, DiscoveryCancelled, TypeOK, ProbeSafe, NoSendOnClosed,
     ExitTellsFailure, Lifecycle
<1>3. CASE LoadConfig \/ Discover \/ Listen \/ Connect
  BY <1>1, <1>3 DEF LoadConfig, Discover, Listen, Connect, TypeOK, ProbeSafe,
     NoSendOnClosed, ExitTellsFailure, Lifecycle
<1>4. CASE CreateService \/ CreateServiceFails \/ MarkStarted
  BY <1>1, <1>4 DEF CreateService, CreateServiceFails, MarkStarted, TypeOK, ProbeSafe,
     NoSendOnClosed, ExitTellsFailure, Lifecycle
<1> QED
  BY <1>2, <1>3, <1>4

\* The select returns nil only for a cancelled context, and an error only for a
\* reported failure; stopping keeps that result and the worker channel.
LEMMA StopStep ==
  ASSUME IInv, SelectDone \/ SelectFailed \/ Drain \/ PollClosed \/ PollTimeout \/ Close
  PROVE  IInv'
<1> USE DEF IInv, Phase, Return
<1>1. TypeOK'
  <2> USE EventNames
  <2>1. CASE SelectDone
    BY <2>1 DEF TypeOK, SelectDone
  <2>2. CASE SelectFailed
    <3>1. natsFailed' \in BOOLEAN /\ svcFailed' \in BOOLEAN
      BY <2>2 DEF TypeOK, SelectFailed
    <3> QED
      BY <2>2, <3>1 DEF TypeOK, SelectFailed
  <2>3. CASE Drain
    BY <2>3 DEF TypeOK, Drain
  <2>4. CASE PollClosed \/ PollTimeout \/ Close
    BY <2>4 DEF TypeOK, PollClosed, PollTimeout, Close
  <2> QED
    BY <2>1, <2>2, <2>3, <2>4
<1>2. CASE SelectDone \/ SelectFailed
  BY <1>1, <1>2 DEF SelectDone, SelectFailed, TypeOK, ProbeSafe, NoSendOnClosed,
     ExitTellsFailure, Lifecycle
<1>3. CASE Drain
  BY <1>1, <1>3 DEF Drain, TypeOK, ProbeSafe, NoSendOnClosed, ExitTellsFailure, Lifecycle
<1>4. CASE PollClosed \/ PollTimeout \/ Close
  BY <1>1, <1>4 DEF PollClosed, PollTimeout, Close, TypeOK, ProbeSafe, NoSendOnClosed,
     ExitTellsFailure, Lifecycle
<1> QED
  BY <1>2, <1>3, <1>4

\* The environment never touches the worker channel, and only faults raise
\* events while run still waits.
LEMMA EnvironmentStep == ASSUME IInv, Environment PROVE IInv'
<1> USE DEF IInv, Phase, Running, ReturnEarly
<1>1. TypeOK'
  <2> USE EventNames
  <2>1. CASE Kill \/ Terminate
    BY <2>1 DEF TypeOK, Kill, Terminate
  <2>2. CASE Disconnect \/ Reconnect \/ GiveUp \/ DrainEnds
    <3>1. CASE Disconnect
      BY <2>2, <3>1 DEF TypeOK, Disconnect
    <3>2. CASE Reconnect
      BY <2>2, <3>2 DEF TypeOK, Reconnect
    <3>3. CASE GiveUp
      BY <3>3 DEF TypeOK, GiveUp
    <3>4. CASE DrainEnds
      BY <3>4 DEF TypeOK, DrainEnds
    <3> QED
      BY <2>2, <3>1, <3>2, <3>3, <3>4
  <2>3. CASE Revoke \/ ServiceFails
    <3>1. CASE Revoke
      BY <3>1 DEF TypeOK, Revoke
    <3>2. CASE ServiceFails
      BY <3>2 DEF TypeOK, ServiceFails
    <3> QED
      BY <2>3, <3>1, <3>2
  <2>4. CASE Deliver \/ Enqueue
    BY <2>4, ServiceAssumption DEF TypeOK, Deliver, Enqueue
  <2> QED
    BY <2>1, <2>2, <2>3, <2>4 DEF Environment
<1>2. CASE Kill \/ Terminate
  BY <1>1, <1>2 DEF Kill, Terminate, TypeOK, ProbeSafe, NoSendOnClosed,
     ExitTellsFailure, Lifecycle
<1>3. CASE Disconnect \/ Reconnect
  BY <1>1, <1>3 DEF Disconnect, Reconnect, TypeOK, ProbeSafe, NoSendOnClosed,
     ExitTellsFailure, Lifecycle
<1>4. CASE GiveUp \/ DrainEnds
  BY <1>1, <1>4 DEF GiveUp, DrainEnds, TypeOK, ProbeSafe, NoSendOnClosed,
     ExitTellsFailure, Lifecycle
<1>5. CASE Revoke \/ ServiceFails
  BY <1>1, <1>5 DEF Revoke, ServiceFails, TypeOK, ProbeSafe, NoSendOnClosed,
     ExitTellsFailure, Lifecycle
<1>6. CASE Deliver \/ Enqueue
  BY <1>1, <1>6 DEF Deliver, Enqueue, TypeOK, ProbeSafe, NoSendOnClosed,
     ExitTellsFailure, Lifecycle
<1> QED
  BY <1>2, <1>3, <1>4, <1>5, <1>6 DEF Environment

\* A callback only moves an event into its channel.
LEMMA CallbackStep == ASSUME IInv, NEW e \in Event, Callback(e) PROVE IInv'
<1> USE DEF IInv, Event
<1>1. TypeOK'
  BY DEF TypeOK, Callback
<1> QED
  BY <1>1 DEF Callback, Running, TypeOK, ProbeSafe, NoSendOnClosed, ExitTellsFailure, Lifecycle

\* A step that changes nothing preserves everything.
LEMMA StutterStep == ASSUME IInv, UNCHANGED vars PROVE IInv'
BY DEF IInv, TypeOK, ProbeSafe, NoSendOnClosed, ExitTellsFailure, Lifecycle, vars

\* The inductive invariant holds in every reachable state.
THEOREM Invariance == Spec => []IInv
<1>1. IInv /\ [Next]_vars => IInv'
  BY StartupStep, StopStep, EnvironmentStep, CallbackStep, StutterStep DEF Next, Run
<1> QED
  BY InitInvariant, <1>1, PTL DEF Spec

\* Every variable keeps its type.
THEOREM TypeCorrect == Spec => []TypeOK
<1>1. IInv => TypeOK
  BY DEF IInv
<1> QED
  BY <1>1, Invariance, PTL

\* The readiness probe never reads nc or svc before they are assigned (run).
THEOREM ProbeNeverNil == Spec => []ProbeSafe
<1>1. IInv => ProbeSafe
  BY DEF IInv
<1> QED
  BY <1>1, Invariance, PTL

\* stopService leaves the worker channel open, so no delivery panics, in
\* whatever order the drain, the disconnects and the deliveries come.
THEOREM NeverPanics == Spec => []NoSendOnClosed
<1>1. IInv => NoSendOnClosed
  BY DEF IInv
<1> QED
  BY <1>1, Invariance, PTL

\* The exit status is zero only for a requested shutdown, and non-zero with a
\* fault whenever the process ends by itself (run, its select).
THEOREM ExitStatus == Spec => []ExitTellsFailure
<1>1. IInv => ExitTellsFailure
  BY DEF IInv
<1> QED
  BY <1>1, Invariance, PTL

-----------------------------------------------------------------------------
\* A service that has started is never assigned again, and once stopped it
\* stays stopped.
LEMMA StartedStays ==
  ASSUME IInv, ProbesInv, Next
  PROVE  /\ started => started' /\ svc' \in {svc, "stopped"}
         /\ started' => phase' \in {"select", "stop", "drain", "close", "exited"}
<1> USE DEF ProbesInv
<1>1. CASE Run
  BY <1>1 DEF Run, StartupFails, DiscoveryCancelled, LoadConfig, Discover, Listen, Connect,
     CreateService, CreateServiceFails, MarkStarted, SelectDone, SelectFailed, Drain,
     PollClosed, PollTimeout, Close, Return, ReturnEarly
<1>2. CASE Environment
  BY <1>2 DEF Environment, Kill, Terminate, Disconnect, Reconnect, GiveUp, DrainEnds, Revoke,
     ServiceFails, Deliver, Enqueue, ReturnEarly, Running
<1>3. ASSUME NEW e \in Event, Callback(e)
      PROVE  UNCHANGED <<started, svc, phase>>
  BY <1>3 DEF Callback
<1> QED
  BY <1>1, <1>2, <1>3 DEF Next

\* The process goes on while the handler is between two of its reads.
LEMMA ProcessKeepsProbe ==
  ASSUME IInv, ProbesInv, ProcessStep
  PROVE  ProbesInv'
<1>1. UNCHANGED probeVars
  BY DEF ProcessStep, Listened, serverVars
<1>2. Next
  BY DEF ProcessStep
<1> QED
  BY <1>1, <1>2, StartedStays DEF ProbesInv, ReadyAnswerHonest, probeVars

\* The handler reads.  The second read finds the connection up: either the
\* service runs at that moment, or it has stopped and the third read says so.
LEMMA ServerKeepsProbe ==
  ASSUME IInv, ProbesInv, ServerStep
  PROVE  ProbesInv'
<1> USE DEF ProbesInv, ReadyAnswerHonest
<1>1. UNCHANGED <<started, phase, conn, svc>>
  BY DEF ServerStep, vars
<1>2. CASE UNCHANGED probeVars
  BY <1>1, <1>2 DEF probeVars
<1>3. CASE ProbeBegins \/ ProbeOk
  BY <1>1, <1>3 DEF ProbeBegins, ProbeOk
<1>4. CASE ProbeReads
  <2>1. svc \in {"none", "running", "stopped"} /\ (started => svc # "none")
    BY DEF IInv, TypeOK, ProbeSafe
  <2>2. wasReady' <=> (wasReady \/ (started /\ conn = "connected" /\ svc = "running"))
    BY <1>4 DEF ProbeReads
  <2>3. CASE probe = 1
    BY <1>1, <1>4, <2>1, <2>2, <2>3 DEF ProbeReads, Conjunct
  <2>4. CASE probe = 2
    BY <1>1, <1>4, <2>1, <2>2, <2>4 DEF ProbeReads, Conjunct
  <2>5. CASE probe = 3
    BY <1>1, <1>4, <2>1, <2>2, <2>5 DEF ProbeReads, Conjunct
  <2> QED
    BY <1>4, <2>3, <2>4, <2>5 DEF ProbeReads
<1> QED
  BY <1>2, <1>3, <1>4 DEF ServerStep, AcceptFails, SendErr, ServeDone, ServeErr, Drained,
     DrainTimesOut, Dial, HangUp

\* Whatever the connection, the service and the shutdown do between the three
\* reads of ready, an answer of 200 was true at one of them.
THEOREM ReadinessHonest == ProbesSpec => []ReadyAnswerHonest
<1>1. ProbesInit => IInv /\ ProbesInv
  BY InitInvariant DEF ProbesInit, ServerInit, Init, ProbesInv, ReadyAnswerHonest
<1>2. IInv /\ [Next]_vars => IInv'
  BY StartupStep, StopStep, EnvironmentStep, CallbackStep, StutterStep DEF Next, Run
<1>3. ASSUME IInv, ProbesInv, [ProbesNext]_<<vars, serverVars>>
      PROVE  IInv' /\ ProbesInv'
  <2>1. IInv'
    BY <1>2, <1>3 DEF ProbesNext, ProcessStep, ServerStep
  <2>2. CASE UNCHANGED <<vars, serverVars>>
    BY <1>3, <2>1, <2>2 DEF vars, serverVars, probeVars, ProbesInv, ReadyAnswerHonest
  <2> QED
    BY <1>3, <2>1, <2>2, ProcessKeepsProbe, ServerKeepsProbe DEF ProbesNext
<1>4. IInv /\ ProbesInv => ReadyAnswerHonest
  BY DEF ProbesInv
<1> QED
  BY <1>1, <1>3, <1>4, PTL DEF ProbesSpec
=============================================================================
