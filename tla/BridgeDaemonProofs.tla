-------------------------- MODULE BridgeDaemonProofs --------------------------
(***************************************************************************)
(* Proofs about BridgeDaemon: whatever the daemon, its stream and its      *)
(* disturbances do, the bus only ever takes steps of BusDelivery, so that  *)
(* what is proved there holds of the two processes together; and the       *)
(* daemon's own bookkeeping of who handles which endpoint is sound.        *)
(***************************************************************************)
EXTENDS BridgeDaemon, BusDeliveryProofs

BusStep == Next \/ UNCHANGED vars

-----------------------------------------------------------------------------
(* Every step of the two processes is a step of the bus, or none.            *)

\* A report the bus accepts is one of its report handlers, any other is ignored.
LEMMA ReportIsBusStep ==
    ASSUME settling = {}, UNCHANGED settling,
           NEW r \in Rows, NEW n \in Attempts, NEW s, Report(r, n, s)
    PROVE  BusStep
<1>1. CASE ~Reportable(r, n, s)
  BY <1>1 DEF Report, BusIgnores, BusStep, vars
<1>2. CASE Reportable(r, n, s) /\ s = "deferred"
  <2>1. BridgeCall
    BY <1>2 DEF Report, BridgeCall
  <2> QED  BY <2>1 DEF BusStep, Next
<1>3. CASE Reportable(r, n, s) /\ s # "deferred"
  <2>1. s \in Reports /\ ReportProgress(r, n, s)
    BY <1>3 DEF Report, Reportable
  <2>2. BridgeCall
    BY <2>1 DEF BridgeCall
  <2> QED  BY <2>2 DEF BusStep, Next
<1> QED  BY <1>1, <1>2, <1>3

LEMMA DeliveryParts ==
    ASSUME NEW d \in Deliveries
    PROVE  d[1] \in Rows /\ d[2] \in Attempts /\ EndpointOf(d) \in Endpoints
           /\ d = <<d[1], d[2]>>
BY DEF Deliveries, Rows, EndpointOf

LEMMA StepIsBusStep ==
    ASSUME settling = {}, NEW d \in Deliveries, Step(d)
    PROVE  BusStep
<1>1. d[1] \in Rows /\ d[2] \in Attempts /\ EndpointOf(d) \in Endpoints
  BY DeliveryParts
<1>2. UNCHANGED settling
  BY DEF Step
<1>3. ASSUME BusIgnores PROVE BusStep
  BY <1>2, <1>3 DEF BusIgnores, BusStep, vars
<1>4. ASSUME NEW s, Report(d[1], d[2], s) PROVE BusStep
  BY <1>1, <1>2, <1>4, ReportIsBusStep
<1>5. ASSUME NEW o \in {"completed", "failed"}, RecordRuntimeTurnResult(d[1], d[2], o)
      PROVE  BusStep
  <2>1. BridgeCall
    BY <1>1, <1>5 DEF BridgeCall
  <2> QED  BY <1>2, <2>1 DEF BusStep, Next
<1>6. CASE Injects(d) \/ InjectsCommand(d)
  BY <1>4, <1>6 DEF Injects, InjectsCommand
<1>7. CASE RunsTurn(d) \/ Leaves(d)
  BY <1>3, <1>7 DEF RunsTurn, Leaves
<1>8. CASE Defers(d) \/ Acknowledges(d) \/ DeadLetters(d)
  BY <1>3, <1>4, <1>8 DEF Defers, Acknowledges, DeadLetters, StopsCancelled
<1>9. CASE Finalizes(d)
  BY <1>3, <1>5, <1>9 DEF Finalizes
<1>10. CASE RecordsFailure(d)
  BY <1>5, <1>10 DEF RecordsFailure
<1>11. CASE EndsTurn(d)
  <2>1. CASE BusIgnores
    BY <1>3, <2>1
  <2>2. CASE ReportTurnEnd(EndpointOf(d))
    <3>1. BridgeCall
      BY <1>1, <2>2 DEF BridgeCall
    <3> QED  BY <1>2, <3>1 DEF BusStep, Next
  <2> QED  BY <1>11, <2>1, <2>2 DEF EndsTurn
<1>12. CASE EmitsResult(d)
  <2>1. CASE BusIgnores
    BY <1>3, <2>1
  <2>2. CASE \E sc \in Scopes, D \in SUBSET (Agents \cap Routable) :
                 /\ EndpointOf(d) \in Commands[sc]
                 /\ Submit([BlankEvent EXCEPT !.kind = "message",
                                              !.source = EndpointOf(d),
                                              !.scope = sc], D)
    <3>1. PICK sc \in Scopes, D \in SUBSET (Agents \cap Routable) :
                 /\ EndpointOf(d) \in Commands[sc]
                 /\ Submit([BlankEvent EXCEPT !.kind = "message",
                                              !.source = EndpointOf(d),
                                              !.scope = sc], D)
      BY <2>2
    <3>2. "message" \in Kinds
      BY <3>1, DaemonAssumption DEF Nodes
    <3>3. EmitEvent("message", EndpointOf(d), sc)
      BY <3>1, <3>2 DEF EmitEvent
    <3>4. ClientCall
      BY <1>1, <3>3 DEF ClientCall, ClientKinds
    <3> QED  BY <1>2, <3>4 DEF BusStep, Next
  <2> QED  BY <1>12, <2>1, <2>2 DEF EmitsResult, StopsCancelled
<1>13. CASE ConcludesCommand(d)
  BY <1>4, <1>13 DEF ConcludesCommand
<1> QED
  BY <1>6, <1>7, <1>8, <1>9, <1>10, <1>11, <1>12, <1>13 DEF Step


-----------------------------------------------------------------------------
(* The daemon's own bookkeeping: the scan registers endpoints only, and      *)
(* processingEndpoints keeps two handlers of one endpoint apart.             *)

HandlersInv ==
    /\ scan \in [stage : Stages, left : SUBSET Endpoints]
    /\ task \in [Deliveries -> Phases]
    /\ OneHandlerPerEndpoint

LEMMA HandlersInit == DaemonInit => HandlersInv
BY DEF DaemonInit, HandlersInv, OneHandlerPerEndpoint, Idle, Stages, Phases

\* A step of a running handler moves its own task only.
LEMMA MovesKeepsHandlers ==
    ASSUME HandlersInv, NEW d \in Deliveries, NEW from \in Phases \ {"none"},
           NEW to \in Phases, Moves(d, from, to)
    PROVE  task' \in [Deliveries -> Phases] /\ OneHandlerPerEndpoint'
BY DEF HandlersInv, OneHandlerPerEndpoint, Moves

\* A handler is only started for endpoints that have none, one for each.
LEMMA BeginKeepsHandlers ==
    ASSUME HandlersInv, NEW D, Begin(D),
           \A d \in D : ~Busy(EndpointOf(d)),
           \A d, e \in D : EndpointOf(d) = EndpointOf(e) => d = e
    PROVE  task' \in [Deliveries -> Phases] /\ OneHandlerPerEndpoint'
<1>1. /\ task' \in [Deliveries -> Phases]
      /\ \A d \in Deliveries : task'[d] # "none" => d \in D \/ task[d] # "none"
  BY DEF HandlersInv, Begin, Phases, AgentPhases, CommandPhases
<1>2. \A d, e \in Deliveries :
          d \in D /\ task[e] # "none" => EndpointOf(d) # EndpointOf(e)
  BY DEF Busy
<1>3. OneHandlerPerEndpoint'
  BY <1>1, <1>2 DEF HandlersInv, OneHandlerPerEndpoint
<1> QED  BY <1>1, <1>3

LEMMA StepKeepsHandlers ==
    ASSUME HandlersInv, NEW d \in Deliveries, Step(d)
    PROVE  HandlersInv'
<1>1. UNCHANGED scan
  BY DEF Step, scanVars
<1>2. \E from \in Phases \ {"none"}, to \in Phases : Moves(d, from, to)
  BY DEF Step, Injects, RunsTurn, Defers, Finalizes, Acknowledges, DeadLetters,
         RecordsFailure, EndsTurn, Leaves, InjectsCommand, EmitsResult,
         ConcludesCommand, StopsCancelled, Phases, AgentPhases, CommandPhases
<1>3. task' \in [Deliveries -> Phases] /\ OneHandlerPerEndpoint'
  BY <1>2, MovesKeepsHandlers
<1> QED  BY <1>1, <1>3 DEF HandlersInv

LEMMA ScanKeepsType ==
    ASSUME HandlersInv
    PROVE  /\ Idle \in [stage : Stages, left : SUBSET Endpoints]
           /\ [stage |-> "agents", left |-> Agents]
                  \in [stage : Stages, left : SUBSET Endpoints]
           /\ StartScan => scan' \in [stage : Stages, left : SUBSET Endpoints]
BY DaemonAssumption DEF HandlersInv, Idle, Stages, StartScan

LEMMA ProceedsKeepsHandlers == HandlersInv /\ Proceeds => HandlersInv'
<1> SUFFICES ASSUME HandlersInv, Proceeds PROVE HandlersInv'
  OBVIOUS
<1>1. ASSUME UNCHANGED task PROVE task' \in [Deliveries -> Phases] /\ OneHandlerPerEndpoint'
  BY <1>1 DEF HandlersInv, OneHandlerPerEndpoint
<1>2. CASE Start \/ OpenStream
  BY <1>1, <1>2, ScanKeepsType DEF Start, OpenStream, taskVars, HandlersInv
<1>3. CASE ScanRegisters
  <2>1. UNCHANGED task
    BY <1>3 DEF ScanRegisters, taskVars
  <2>2. \E p : scan' = [scan EXCEPT !.left = @ \ {p}]
    BY <1>3 DEF ScanRegisters
  <2>3. scan' \in [stage : Stages, left : SUBSET Endpoints]
    BY <2>2 DEF HandlersInv
  <2> QED  BY <1>1, <2>1, <2>3 DEF HandlersInv
<1>4. CASE ScanListsGraphs
  <2>1. UNION {Commands[s] : s \in Scopes \ retired} \in SUBSET Endpoints
    BY ConstantsAssumption
  <2>2. UNCHANGED task
    BY <1>4 DEF ScanListsGraphs, taskVars
  <2> QED  BY <1>1, <1>4, <2>1, <2>2 DEF ScanListsGraphs, Stages, HandlersInv
<1>5. CASE ScanEnds
  BY <1>1, <1>5, ScanKeepsType DEF ScanEnds, taskVars, HandlersInv
<1>6. CASE Claim
  BY <1>1, <1>6 DEF Claim, taskVars, scanVars, HandlersInv
<1>7. CASE HandleReply
  <2>1. \E D, T : /\ T \in SUBSET {d \in D : ~Busy(EndpointOf(d))}
                  /\ \A t, u \in T : EndpointOf(t) = EndpointOf(u) => t = u
                  /\ Begin(T)
    BY <1>7 DEF HandleReply
  <2>2. task' \in [Deliveries -> Phases] /\ OneHandlerPerEndpoint'
    BY <2>1, BeginKeepsHandlers
  <2> QED  BY <1>7, <2>2 DEF HandleReply, scanVars, HandlersInv
<1>8. CASE Receive
  <2>1. \/ UNCHANGED task
        \/ \E D : /\ Begin(D)
                  /\ \A d \in D : ~Busy(EndpointOf(d))
                  /\ \A d, e \in D : EndpointOf(d) = EndpointOf(e) => d = e
    <3>1. CASE Head(wire).kind = "bundle" /\ Begin({Head(wire).of})
               /\ ~Busy(EndpointOf(Head(wire).of))
      BY <3>1
    <3>2. CASE UNCHANGED task
      BY <3>2
    <3> QED  BY <1>8, <3>1, <3>2 DEF Receive, taskVars
  <2>2. task' \in [Deliveries -> Phases] /\ OneHandlerPerEndpoint'
    BY <1>1, <2>1, BeginKeepsHandlers
  <2>3. scan' = scan \/ StartScan
    BY <1>8 DEF Receive
  <2> QED  BY <2>2, <2>3, ScanKeepsType DEF HandlersInv
<1>9. ASSUME NEW d \in Deliveries, Step(d) PROVE HandlersInv'
  BY <1>9, StepKeepsHandlers
<1>10. ASSUME NEW d \in Deliveries, LeaseExpires(d) PROVE HandlersInv'
  BY <1>1, <1>10 DEF LeaseExpires, daemonSame, taskVars, scanVars, HandlersInv
<1> QED
  BY <1>2, <1>3, <1>4, <1>5, <1>6, <1>7, <1>8, <1>9, <1>10 DEF Proceeds

LEMMA IntrudesKeepsHandlers == HandlersInv /\ Intrudes => HandlersInv'
<1> SUFFICES ASSUME HandlersInv, Intrudes PROVE HandlersInv'
  OBVIOUS
<1>1. ASSUME UNCHANGED <<task, scan>> PROVE HandlersInv'
  BY <1>1 DEF HandlersInv, OneHandlerPerEndpoint
<1>2. ASSUME NEW d \in Deliveries, Asks(d), UNCHANGED scanVars PROVE HandlersInv'
  BY <1>1, <1>2 DEF Asks, taskVars, scanVars
<1>3. CASE Wakes \/ StopScope \/ AsksToRescan
  BY <1>1, <1>3 DEF Wakes, StopScope, AsksToRescan, daemonSame, taskVars, scanVars
<1>4. CASE Disconnect
  BY <1>1, <1>4 DEF Disconnect, taskVars, scanVars
<1>5. CASE Crash
  BY <1>5, ScanKeepsType DEF Crash, HandlersInv, OneHandlerPerEndpoint, Phases
<1> QED  BY <1>2, <1>3, <1>4, <1>5 DEF Intrudes

LEMMA HandlersInductive == HandlersInv /\ [DaemonNext]_allVars => HandlersInv'
<1> SUFFICES ASSUME HandlersInv, [DaemonNext]_allVars PROVE HandlersInv'
  OBVIOUS
<1>1. CASE Settles
  BY <1>1 DEF Settles, daemonSame, taskVars, scanVars, HandlersInv,
              OneHandlerPerEndpoint
<1>2. CASE UNCHANGED allVars
  BY <1>2 DEF allVars, daemonVars, taskVars, scanVars, HandlersInv,
              OneHandlerPerEndpoint
<1> QED
  BY <1>1, <1>2, ProceedsKeepsHandlers, IntrudesKeepsHandlers DEF DaemonNext

LEMMA HandlersInvariance == DaemonSpec => []HandlersInv
BY HandlersInit, HandlersInductive, PTL DEF DaemonSpec

\* However push and claim race, an endpoint has one handler at a time, for every
\* number of endpoints, deliveries and disturbances.
THEOREM OneHandler == DaemonSpec => []OneHandlerPerEndpoint
<1>1. HandlersInv => OneHandlerPerEndpoint
  BY DEF HandlersInv
<1> QED  BY <1>1, HandlersInvariance, PTL

-----------------------------------------------------------------------------
(* The composition implements the bus.                                       *)

LEMMA ProceedsIsBusStep == HandlersInv /\ settling = {} /\ Proceeds => BusStep
<1> SUFFICES ASSUME HandlersInv, settling = {}, Proceeds PROVE BusStep
  OBVIOUS
<1>1. CASE Start
  BY <1>1, DaemonAssumption DEF Start, BusStep, Next
<1>2. CASE OpenStream \/ ScanListsGraphs \/ ScanEnds \/ HandleReply \/ Receive
  BY <1>2 DEF OpenStream, ScanListsGraphs, ScanEnds, HandleReply, Receive, BusStep
<1>3. CASE ScanRegisters
  <2>1. PICK p \in scan.left :
             \E s \in Registered(p) : RegisterEndpoint(p, Bridge, s)
    BY <1>3 DEF ScanRegisters
  <2>2. p \in Endpoints
    BY <2>1 DEF HandlersInv
  <2>3. EndpointCall
    BY <2>1, <2>2, DaemonAssumption DEF EndpointCall, Registered
  <2>4. UNCHANGED settling
    BY <1>3 DEF ScanRegisters
  <2> QED  BY <2>3, <2>4 DEF BusStep, Next
<1>4. CASE Claim
  <2>1. BridgeCall /\ UNCHANGED settling
    BY <1>4, DaemonAssumption DEF Claim, BridgeCall
  <2> QED  BY <2>1 DEF BusStep, Next
<1>5. ASSUME NEW d \in Deliveries, Step(d) PROVE BusStep
  BY <1>5, StepIsBusStep
<1>6. ASSUME NEW d \in Deliveries, LeaseExpires(d) PROVE BusStep
  BY <1>6, DeliveryParts DEF LeaseExpires, BusStep, Next
<1> QED
  BY <1>1, <1>2, <1>3, <1>4, <1>5, <1>6 DEF Proceeds

LEMMA IntrudesIsBusStep == settling = {} /\ Intrudes => BusStep
<1> SUFFICES ASSUME settling = {}, Intrudes PROVE BusStep
  OBVIOUS
<1>1. ASSUME NEW d \in Deliveries, Asks(d), UNCHANGED settling PROVE BusStep
  <2>1. PICK to \in Agents, sc \in Scopes \cup {NoScope} : EmitRequest(d[1], d[2], to, sc)
    BY <1>1 DEF Asks
  <2>2. to \in Endpoints /\ d[1] \in Rows /\ d[2] \in Attempts
    BY DaemonAssumption, DeliveryParts
  <2>3. ClientCall
    BY <2>1, <2>2 DEF ClientCall
  <2> QED  BY <1>1, <2>3 DEF BusStep, Next
<1>2. CASE Wakes
  <2>1. ClientCall /\ UNCHANGED settling
    BY <1>2 DEF Wakes, ClientCall
  <2> QED  BY <2>1 DEF BusStep, Next
<1>3. CASE StopScope
  BY <1>3 DEF StopScope, BusStep, Next
<1>4. CASE Crash \/ Disconnect \/ AsksToRescan
  BY <1>4 DEF Crash, Disconnect, AsksToRescan, BusStep
<1> QED  BY <1>1, <1>2, <1>3, <1>4 DEF Intrudes

\* The two processes together take only steps of BusDelivery: every behaviour of
\* DaemonSpec is one of Spec, and what is proved of Spec holds of it.
THEOREM DaemonImplementsBus == DaemonSpec => Spec
<1>1. DaemonInit => Init
  BY DEF DaemonInit
<1>2. HandlersInv /\ [DaemonNext]_allVars => [Next]_vars
  <2>1. SettleAbandoned => BusStep
    BY DEF BusStep, Next
  <2>2. HandlersInv /\ DaemonNext => BusStep
    BY <2>1, ProceedsIsBusStep, IntrudesIsBusStep DEF DaemonNext, Settles
  <2>3. UNCHANGED allVars => UNCHANGED vars
    BY DEF allVars
  <2> QED  BY <2>2, <2>3 DEF BusStep
<1> QED  BY <1>1, <1>2, HandlersInvariance, PTL DEF DaemonSpec, Spec

\* Whatever crash, lost message or late answer the daemon meets, what the bus has
\* settled stays settled.
THEOREM DaemonCannotUnsettle == DaemonSpec => SettledIsFinal
BY DaemonImplementsBus, SettledStaysSettled, PTL

-----------------------------------------------------------------------------
(* Cancellations.                                                            *)

Drops ==
    \A d \in Deliveries :
        d \in cancelled /\ task'[d] # task[d] =>
            task'[d] \notin {"binding", "starting", "recording", "reporting"}

LEMMA StepDrops ==
    ASSUME HandlersInv, NEW d \in Deliveries, Step(d)
    PROVE  Drops
<1>1. /\ \A e \in Deliveries : e # d => task'[e] = task[e]
      /\ d \in cancelled => task'[d] \notin {"binding", "starting", "recording", "reporting"}
  BY DEF Step, Injects, RunsTurn, Defers, Finalizes, Acknowledges, DeadLetters,
         RecordsFailure, EndsTurn, Leaves, InjectsCommand, EmitsResult,
         ConcludesCommand, StopsCancelled, Moves, HandlersInv
<1> QED  BY <1>1 DEF Drops

\* A delivery known to be cancelled is not taken up, in whichever order its push, its claim
\* and its cancellation reached the daemon; of one already in hand no failure is reported
\* and no command's result emitted.  That its turn may still start is not excluded.
THEOREM CancelledIsAlwaysDropped == DaemonSpec => CancelledIsDropped
<1>1. ASSUME UNCHANGED task PROVE Drops
  BY <1>1 DEF Drops
<1>2. ASSUME NEW D, Begin(D) PROVE Drops
  BY <1>2 DEF Begin, Drops
<1>3. ASSUME Proceeds, HandlersInv PROVE Drops
  <2>1. CASE Start \/ OpenStream \/ ScanRegisters \/ ScanListsGraphs \/ ScanEnds \/ Claim
    BY <1>1, <2>1 DEF Start, OpenStream, ScanRegisters, ScanListsGraphs, ScanEnds,
                      Claim, taskVars
  <2>2. CASE HandleReply
    BY <1>2, <2>2 DEF HandleReply
  <2>3. CASE Receive
    BY <1>1, <1>2, <2>3 DEF Receive, taskVars
  <2>4. ASSUME NEW d \in Deliveries, Step(d) PROVE Drops
    BY <1>3, <2>4, StepDrops
  <2>5. ASSUME NEW d \in Deliveries, LeaseExpires(d) PROVE Drops
    BY <1>1, <2>5 DEF LeaseExpires, daemonSame, taskVars
  <2> QED  BY <1>3, <2>1, <2>2, <2>3, <2>4, <2>5 DEF Proceeds
<1>4. ASSUME Intrudes PROVE Drops
  <2>1. CASE Crash
    BY <2>1 DEF Crash, Drops
  <2>2. CASE UNCHANGED task
    BY <1>1, <2>2
  <2> QED  BY <1>4, <2>1, <2>2 DEF Intrudes, Asks, Wakes, StopScope, Disconnect,
                                  AsksToRescan, daemonSame, taskVars
<1>5. ASSUME Settles PROVE Drops
  BY <1>1, <1>5 DEF Settles, daemonSame, taskVars
<1>6. HandlersInv /\ [DaemonNext]_allVars => [Drops]_allVars
  BY <1>3, <1>4, <1>5 DEF DaemonNext
<1> QED  BY <1>6, HandlersInvariance, PTL DEF DaemonSpec, CancelledIsDropped, Drops
=============================================================================
