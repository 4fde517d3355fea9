------------------------ MODULE MC_ExecutionSnapshot ------------------------
(***************************************************************************)
(* Model-checking instance of ExecutionSnapshot: the chain of             *)
(* MC_WebhookDispatch (two global middlewares, then the job's per-job one) *)
(* with the same deliveries (d1 retries once).                           *)
(***************************************************************************)
EXTENDS ExecutionSnapshot, TLC

CONSTANTS d1, d2, d3

MCDefs == {d1, d2, d3}

MCPriority == (d1 :> 0) @@ (d2 :> 1) @@ (d3 :> 1)

MCDeliveryOf ==
    LET s(n) == [kind |-> "global", retryCount |-> n, backoff |-> 1,
                 backoffParses |-> TRUE, timeout |-> 10, renders |-> TRUE,
                 requestBuilds |-> TRUE]
    IN  (d1 :> s(1)) @@ (d2 :> s(0)) @@ (d3 :> s(0))

MCChain == << [kind |-> "global", def |-> d1],
              [kind |-> "global", def |-> d2],
              [kind |-> "perjob"] >>

MCErrorNames == <<d3>>
MCInfoNames == <<d2>>

MCTasks ==
    {<<1, "global", 1>>, <<2, "global", 1>>, <<3, "error", 1>>, <<3, "info", 1>>}

MCConfigs ==
    { [MCDeliveryOf[d] EXCEPT !.kind = k] : d \in MCDefs, k \in {"global", "perjob"} }

=============================================================================
