---------------------------- MODULE MCBusDelivery ----------------------------
(* Instances of BusDelivery for TLC. *)
EXTENDS BusDelivery, TLC

\* Scope "s1" composes no command endpoint, Scope "s2" composes all of them.
MixedCommands == [s \in Scopes |-> IF s = "s2" THEN Endpoints ELSE {}]

\* Endpoints are model values that no definition distinguishes.
EndpointSymmetry == Permutations(Endpoints)

\* Requests among endpoints that stay attached: each registers once, one trigger
\* starts the work, and bridges call in any order, with any bundle they know.
RequestNext ==
    /\ settling = {}
    /\ UNCHANGED settling
    /\ \/ \E p \in Endpoints, br \in Bridges :
              status[p] = "absent" /\ RegisterEndpoint(p, br, "idle")
       \/ \E p \in Endpoints : last = 0 /\ EmitTrigger(p, NoScope)
       \/ \E r \in Rows, n \in Attempts, p \in Endpoints :
              EmitRequest(r, n, p, NoScope)
       \/ \E p \in Endpoints : ReportTurnEnd(p)
       \/ \E r \in Rows, n \in Attempts :
              \/ \E s \in Reports : ReportProgress(r, n, s)
              \/ RecordRuntimeTurnResult(r, n, "completed")

RequestSpec == Init /\ [][RequestNext]_vars
=============================================================================
