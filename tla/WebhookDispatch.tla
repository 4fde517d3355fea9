-------------------------- MODULE WebhookDispatch --------------------------
(***************************************************************************)
(* The webhook middlewares around one job execution, and the delivery     *)
(* goroutines they spawn.                                                  *)
(*                                                                         *)
(* A job's middlewares form a chain: each Run calls ctx.Next(), which runs *)
(* the rest of the chain and then the job, and only afterwards does its   *)
(* own work. So the job runs first, then the middlewares finish from the  *)
(* innermost (last in Chain) outwards. Webhook.Run (webhook.go) is a      *)
(* global dispatcher for one definition; PerJobWebhook.Run                 *)
(* (webhook_perjob.go) fires the error-set or the info-set. Each spawned  *)
(* goroutine is a task of WebhookDelivery and runs concurrently with the  *)
(* rest of the chain and with the other tasks.                            *)
(***************************************************************************)
EXTENDS WebhookDelivery

CONSTANTS
    Defs,           \* the definitions loaded from the config file
    Priority,       \* Priority[d]: def.Priority
    DeliveryOf,     \* DeliveryOf[d]: the delivery settings of d (a Config)
    Chain,          \* the job's middlewares, outermost first
    ErrorNames,     \* the per-job webhook-error-names, resolved
    InfoNames       \* the per-job webhook-info-names, resolved

\* A middleware of the chain: a global Webhook for one definition, or the
\* job's PerJobWebhook.
Middleware == [kind: {"global"}, def: Defs] \cup [kind: {"perjob"}]

ASSUME /\ Chain \in Seq(Middleware)
       /\ ErrorNames \in Seq(Defs) /\ InfoNames \in Seq(Defs)

(***************************************************************************)
(* LoadWebhookMiddlewares sorts the definitions by priority before         *)
(* building the global middlewares, so the global ones appear in Chain in *)
(* ascending priority.                                                     *)
(***************************************************************************)
ASSUME \A i, j \in DOMAIN Chain :
         /\ i < j /\ Chain[i].kind = "global" /\ Chain[j].kind = "global"
         => Priority[Chain[i].def] <= Priority[Chain[j].def]

(***************************************************************************)
(* A delivery task is <<m, source, i>>: the goroutine spawned by the       *)
(* middleware at Chain[m], for its only definition (source "global") or   *)
(* for the i-th name of its error-set or info-set.                        *)
(***************************************************************************)
ChainTasks ==
    UNION { IF Chain[m].kind = "global"
              THEN {<<m, "global", 1>>}
              ELSE {<<m, "error", i>> : i \in DOMAIN ErrorNames}
                   \cup {<<m, "info", i>> : i \in DOMAIN InfoNames}
            : m \in DOMAIN Chain }

ASSUME Tasks = ChainTasks

TaskSource(t) == t[2]

TaskDef(t) ==
    CASE t[2] = "global" -> Chain[t[1]].def
      [] t[2] = "error"  -> ErrorNames[t[3]]
      [] t[2] = "info"   -> InfoNames[t[3]]

\* The fields of a WebhookDefinition that classification reads, as the
\* loader leaves them (it rejects an empty or unknown type).
Definition == [type: {"error", "info", "all"}, active: BOOLEAN,
               onlyOnError: BOOLEAN]

VARIABLES
    def,        \* def[d]: the loaded definition d
    jobErr,     \* "none" until the job returns, then its error
    unwind,     \* the index in Chain of the middleware whose Run resumes next
    spawnOrder  \* history: the tasks in the order their go statements ran

dispatchVars == <<def, jobErr, unwind, spawnOrder>>
vars == <<deliveryVars, dispatchVars>>

(***************************************************************************)
(* NewWebhookFromConfig built the PerJobWebhook only if every name of      *)
(* webhook-error-names has type error or all and every name of            *)
(* webhook-info-names has type info or all.                                *)
(***************************************************************************)
ReferencesValid(defs) ==
    /\ \A i \in DOMAIN ErrorNames : defs[ErrorNames[i]].type \in {"error", "all"}
    /\ \A i \in DOMAIN InfoNames : defs[InfoNames[i]].type \in {"info", "all"}

\* The delivery settings of task t's Webhook.
TaskConfig(t) ==
    [DeliveryOf[TaskDef(t)] EXCEPT
        !.kind = IF TaskSource(t) = "global" THEN "global" ELSE "perjob"]

\* core.Execution.Stop(err): Failed is set by an error that is not
\* ErrSkippedExecution.
ExecutionFailed == jobErr = "error"

DispatchInit ==
    /\ def \in [Defs -> Definition]
    /\ ReferencesValid(def)
    /\ cfg = [t \in Tasks |-> TaskConfig(t)]
    /\ pc = [t \in Tasks |-> "idle"]
    /\ DeliveryInit
    /\ jobErr = "none"
    /\ unwind = Len(Chain)
    /\ spawnOrder = <<>>

\* The go statements for the tasks of seq, in order.
Spawn(seq) ==
    LET started == {seq[i] : i \in DOMAIN seq}
    IN  /\ pc' = [t \in Tasks |-> IF t \in started THEN StartPC(cfg[t]) ELSE pc[t]]
        /\ spawnOrder' = spawnOrder \o seq

(***************************************************************************)
(* The innermost ctx.Next() runs the job, which returns its error.        *)
(***************************************************************************)
RunJob ==
    /\ jobErr = "none"
    /\ jobErr' \in {"nil", "error", "skipped"}
    /\ UNCHANGED <<def, unwind, spawnOrder, deliveryVars>>

\* Mutant: the legacy onlyOnError check is missing.
GlobalRunIgnoringOnlyOnError(m) ==
    /\ jobErr # "none"
    /\ unwind = m
    /\ Chain[m].kind = "global"
    /\ LET w == def[Chain[m].def]
           shouldSend == \/ w.type = "all"
                         \/ ExecutionFailed /\ w.type = "error"
                         \/ ~ExecutionFailed /\ w.type = "info"
       IN  IF w.active /\ shouldSend
             THEN Spawn(<<<<m, "global", 1>>>>)
             ELSE UNCHANGED <<pc, spawnOrder>>
    /\ unwind' = m - 1
    /\ UNCHANGED <<def, jobErr, cfg, attempt, backoff, lastErr, outcome,
                   calls, accepted, sleeps>>

(***************************************************************************)
(* Webhook.Run after ctx.Next() returned: ctx.Stop(err); return if not     *)
(* active; decide shouldSend from the type and Execution.Failed; return   *)
(* if onlyOnError and the job did not fail; else go sendWebhook(ctx).     *)
(* Run returns err unchanged.                                              *)
(***************************************************************************)
GlobalRun(m) ==
    /\ jobErr # "none"
    /\ unwind = m
    /\ Chain[m].kind = "global"
    /\ LET w == def[Chain[m].def]
           shouldSend == \/ w.type = "all"
                         \/ ExecutionFailed /\ w.type = "error"
                         \/ ~ExecutionFailed /\ w.type = "info"
       IN  IF w.active /\ shouldSend /\ ~(w.onlyOnError /\ ~ExecutionFailed)
             THEN Spawn(<<<<m, "global", 1>>>>)
             ELSE UNCHANGED <<pc, spawnOrder>>
    /\ unwind' = m - 1
    /\ UNCHANGED <<def, jobErr, cfg, attempt, backoff, lastErr, outcome,
                   calls, accepted, sleeps>>

(***************************************************************************)
(* PerJobWebhook.Run after ctx.Next() returned: ctx.Stop(err); take        *)
(* errorWebhooks if Execution.Failed, else infoWebhooks; for each in      *)
(* order, skip it if inactive, else go sendWebhook(ctx, def).             *)
(***************************************************************************)
PerJobRun(m) ==
    /\ jobErr # "none"
    /\ unwind = m
    /\ Chain[m].kind = "perjob"
    /\ LET source == IF ExecutionFailed THEN "error" ELSE "info"
           names == IF ExecutionFailed THEN ErrorNames ELSE InfoNames
           listed == [i \in DOMAIN names |-> <<m, source, i>>]
       IN  Spawn(SelectSeq(listed, LAMBDA t : def[TaskDef(t)].active))
    /\ unwind' = m - 1
    /\ UNCHANGED <<def, jobErr, cfg, attempt, backoff, lastErr, outcome,
                   calls, accepted, sleeps>>

MiddlewareRun(m) == GlobalRun(m) \/ PerJobRun(m)

DispatchNext ==
    \/ RunJob
    \/ \E m \in DOMAIN Chain : MiddlewareRun(m)
    \/ \E t \in Tasks : DeliveryStep(t) /\ UNCHANGED dispatchVars

(***************************************************************************)
(* Run is a synchronous call chain: once the job has returned, every      *)
(* middleware resumes in turn. Delivery goroutines are fair as in         *)
(* WebhookDelivery. The job itself need not return.                        *)
(***************************************************************************)
DispatchSpec ==
    /\ DispatchInit /\ [][DispatchNext]_vars
    /\ \A m \in DOMAIN Chain : WF_vars(MiddlewareRun(m))
    /\ DeliveryFairness

-----------------------------------------------------------------------------
(***************************************************************************)
(* Properties                                                             *)
(***************************************************************************)

(***************************************************************************)
(* The middlewares and their goroutines implement WebhookNotify: after the *)
(* job returns, the spawned deliveries are exactly the webhooks the       *)
(* classification rules of the spec select (type, active, onlyOnError for *)
(* global ones; the error-set or info-set for per-job ones), none is      *)
(* spawned twice, and every spawned goroutine eventually returns.         *)
(***************************************************************************)
Notify == INSTANCE WebhookNotify WITH
    DefIds <- Defs,
    Source <- TaskSource,
    Target <- TaskDef,
    defs <- def,
    result <- jobErr,
    notified <- {t \in Tasks : pc[t] # "idle"},
    finished <- {t \in Tasks : pc[t] = "done"}

NotifyRefinement == Notify!Spec

(***************************************************************************)
(* spec.md 4.1 and 8, docs/webhooks.md: global dispatchers execute in      *)
(* ascending priority order, lower numbers first. Stated on the order in  *)
(* which Webhook.Run spawns the deliveries.                               *)
(***************************************************************************)
SpawnedInPriorityOrder ==
    \A i, j \in DOMAIN spawnOrder :
        /\ i < j
        /\ TaskSource(spawnOrder[i]) = "global"
        /\ TaskSource(spawnOrder[j]) = "global"
        => Priority[TaskDef(spawnOrder[i])] <= Priority[TaskDef(spawnOrder[j])]

(***************************************************************************)
(* webhook_test.go: TestSimpleTextWebhook, TestJSONWebhook,                *)
(* TestTemplatedURL, TestTemplatedHeaders and TestRetryLogic build a       *)
(* WebhookDefinition without Type and Active, call Webhook.Run and expect  *)
(* the endpoint to be called; TestOnlyOnError expects the same of an      *)
(* onlyOnError definition when the job failed (docs/webhooks.md's Quick   *)
(* Start promises a webhook "after every job execution" for such an       *)
(* entry). Once a global middleware for such a definition has resumed     *)
(* after a job that returned nil or an error, it has spawned its delivery *)
(* unless onlyOnError holds and the job did not fail.                     *)
(***************************************************************************)
UntypedDefinitionsDelivered ==
    \A m \in DOMAIN Chain :
        LET w == def[Chain[m].def]
        IN  /\ Chain[m].kind = "global" /\ unwind < m
            /\ w.type = "" /\ ~w.active
            /\ jobErr \in {"nil", "error"}
            /\ ~(w.onlyOnError /\ ~ExecutionFailed)
            => \E i \in DOMAIN spawnOrder : spawnOrder[i] = <<m, "global", 1>>

=============================================================================
