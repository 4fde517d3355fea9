------------------------ MODULE MC_WebhookDispatch ------------------------
(***************************************************************************)
(* Model-checking instance of WebhookDispatch: two global middlewares and *)
(* one per-job middleware on the same job.                                *)
(***************************************************************************)
EXTENDS WebhookDispatch, TLC

CONSTANTS d1, d2, d3

MCDefs == {d1, d2, d3}

MCPriority == (d1 :> 0) @@ (d2 :> 1) @@ (d3 :> 1)

\* d1 retries once; the others make a single attempt.
MCDeliveryOf ==
    LET s(n) == [kind |-> "global", retryCount |-> n, backoff |-> 1,
                 backoffParses |-> TRUE, timeout |-> 10, renders |-> TRUE,
                 requestBuilds |-> TRUE]
    IN  (d1 :> s(1)) @@ (d2 :> s(0)) @@ (d3 :> s(0))

\* LoadWebhookMiddlewares' list in priority order, then the job's
\* PerJobWebhook innermost.
MCChain == << [kind |-> "global", def |-> d1],
              [kind |-> "global", def |-> d2],
              [kind |-> "perjob"] >>

MCErrorNames == <<d3>>
MCInfoNames == <<d2>>

MCTasks ==
    {<<1, "global", 1>>, <<2, "global", 1>>, <<3, "error", 1>>, <<3, "info", 1>>}

MCConfigs ==
    { [MCDeliveryOf[d] EXCEPT !.kind = k] : d \in MCDefs, k \in {"global", "perjob"} }

\* Definitions as webhook_test.go builds them with NewWebhookFromDefinition:
\* Type and Active left unset ("" and false), onlyOnError either way.
MCTestDefinition == [type: {""}, active: {FALSE}, onlyOnError: BOOLEAN]

\* One global middleware for d1, no per-job webhooks, as in those tests.
MCTestChain == << [kind |-> "global", def |-> d1] >>

MCTestTasks == {<<1, "global", 1>>}

MCNoNames == << >>

=============================================================================
