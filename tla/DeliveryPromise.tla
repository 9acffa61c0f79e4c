--------------------------- MODULE DeliveryPromise ---------------------------
(***************************************************************************)
(* What bus and bridge together promise about the work that events make:   *)
(* a work is one event for one endpoint.  Work is owed from the moment its *)
(* event is stored, is run at most once - attempts that end before they    *)
(* reach a runtime do not count - and is then over for good, as done only  *)
(* if it ran.  Neither bundles, leases, attempts, processes nor messages   *)
(* appear here; BridgeDaemon shows how they keep the promise.              *)
(***************************************************************************)
EXTENDS Naturals

CONSTANT Works

VARIABLES
    stage,   \* how far each work has come
    runs     \* how often it was run

promiseVars == <<stage, runs>>

\* "done" work ended and is acknowledged, "failed" work ran and was given up, and "dropped"
\* work was given up before any runtime saw it.
WorkStages == {"none", "owed", "running", "done", "failed", "dropped"}

PromiseInit ==
    /\ stage = [w \in Works |-> "none"]
    /\ runs = [w \in Works |-> 0]

Goes(w, from, to) == stage[w] = from /\ stage'[w] = to

Rests(w) == stage'[w] = stage[w] /\ runs'[w] = runs[w]
Arises(w) == Goes(w, "none", "owed") /\ runs'[w] = runs[w]
Runs(w) == Goes(w, "owed", "running") /\ runs[w] = 0 /\ runs'[w] = 1
Ends(w) == (\E to \in {"done", "failed"} : Goes(w, "running", to)) /\ runs'[w] = runs[w]
IsDropped(w) == Goes(w, "owed", "dropped") /\ runs'[w] = runs[w]

\* One event makes work for several endpoints, and a bridge that registers again, or a Scope
\* that is stopped, ends the work of several.
PromiseNext ==
    /\ stage' \in [Works -> WorkStages] /\ runs' \in [Works -> Nat]
    /\ \A w \in Works : Rests(w) \/ Arises(w) \/ Runs(w) \/ Ends(w) \/ IsDropped(w)

PromiseSpec == PromiseInit /\ [][PromiseNext]_promiseVars
=============================================================================
