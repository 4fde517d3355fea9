--------------------------- MODULE WebhookSystem ---------------------------
(***************************************************************************)
(* The per-job webhook path end to end. At start-up LoadWebhookMiddlewares *)
(* fills the registry from the webhook file (WebhookLoader). A job's       *)
(* PerJobWebhook is then built from its webhook-error-names and             *)
(* webhook-info-names against that registry (PerJobConfig). When the job    *)
(* returns, PerJobWebhook.Run spawns a goroutine for every active          *)
(* definition of the list for the outcome. Each goroutine is a task of     *)
(* WebhookDelivery, and the tasks run concurrently.                        *)
(*                                                                         *)
(* A task is <<list, k>>: the goroutine for the k-th name of the error list *)
(* or the info list.                                                       *)
(***************************************************************************)
EXTENDS WebhookDelivery, PerJobConfig

CONSTANTS
    Files,      \* the webhook files the loader may find
    Settings    \* the job's [errorNames, infoNames] settings it may have

VARIABLES
    file, loadPC, webhookDefs, li, registry, chain,  \* the loader's state
    setting,    \* the job's webhook-error-names and webhook-info-names
    perJob,     \* NewWebhookFromConfig's result; result "pending" before it
    jobErr,     \* "none" until the job returns, then its error
    unwound     \* PerJobWebhook.Run has resumed after ctx.Next()

loaderVars == <<file, loadPC, webhookDefs, li, registry, chain>>
systemVars == <<loaderVars, setting, perJob, jobErr, unwound>>
vars == <<systemVars, deliveryVars>>

Loader == INSTANCE WebhookLoader WITH pc <- loadPC, i <- li

(***************************************************************************)
(* The delivery settings of the Webhook that NewWebhookFromDefinition      *)
(* builds in the goroutine from def. The model's files leave retry unset  *)
(* (count 0) and have templates and URLs that render and build.           *)
(***************************************************************************)
DeliveryConfig(def) ==
    [kind |-> "perjob", retryCount |-> 0, backoff |-> 1,
     backoffParses |-> def.backoffParses, timeout |-> def.timeout,
     renders |-> TRUE, requestBuilds |-> TRUE]

\* The setting before any goroutine is spawned; it is never read.
Unspawned == [kind |-> "perjob", retryCount |-> 0, backoff |-> 1,
              backoffParses |-> TRUE, timeout |-> 10, renders |-> TRUE,
              requestBuilds |-> TRUE]

SystemInit ==
    /\ Loader!Init
    /\ setting \in Settings
    /\ perJob = [result |-> "pending", errorWebhooks |-> << >>,
                 infoWebhooks |-> << >>]
    /\ jobErr = "none"
    /\ unwound = FALSE
    /\ cfg = [t \in Tasks |-> Unspawned]
    /\ pc = [t \in Tasks |-> "idle"]
    /\ DeliveryInit

\* One step of the loader.
Load ==
    /\ Loader!Next
    /\ UNCHANGED <<setting, perJob, jobErr, unwound, deliveryVars>>

\* The job's middlewares are built once the registry is loaded.
BuildPerJob ==
    /\ loadPC = "done"
    /\ perJob.result = "pending"
    /\ perJob' = NewWebhookFromConfig(registry, setting.errorNames,
                                      setting.infoNames)
    /\ UNCHANGED <<loaderVars, setting, jobErr, unwound, deliveryVars>>

\* The innermost ctx.Next() runs the job; only a built PerJobWebhook wraps it.
RunJob ==
    /\ perJob.result = "ok"
    /\ jobErr = "none"
    /\ jobErr' \in {"nil", "error", "skipped"}
    /\ UNCHANGED <<loaderVars, setting, perJob, unwound, deliveryVars>>

\* The go statements for the indices ks of list source, whose definitions
\* are list[k].
SpawnAll(source, list, ks) ==
    LET fired(t) == t[1] = source /\ t[2] \in ks
    IN  /\ pc' = [t \in Tasks |-> IF fired(t) THEN "create" ELSE pc[t]]
        /\ cfg' = [t \in Tasks |-> IF fired(t) THEN DeliveryConfig(list[t[2]]) ELSE cfg[t]]
        /\ backoff' = [t \in Tasks |-> IF fired(t) THEN cfg'[t].backoff ELSE backoff[t]]

\* ctx.Stop(err) marks the execution failed for an error that is not
\* ErrSkippedExecution.
Failed == jobErr = "error"

\* Mutant: the loop returns at the first inactive definition.
PerJobRunBreakOnInactive ==
    /\ jobErr # "none"
    /\ ~unwound
    /\ LET source == IF Failed THEN "error" ELSE "info"
           list == IF Failed THEN perJob.errorWebhooks ELSE perJob.infoWebhooks
       IN  SpawnAll(source, list,
                    {k \in DOMAIN list : \A j \in 1..k : list[j].active})
    /\ unwound' = TRUE
    /\ UNCHANGED <<loaderVars, setting, perJob, jobErr, attempt, lastErr,
                   outcome, calls, accepted, sleeps>>

(***************************************************************************)
(* PerJobWebhook.Run after ctx.Next(): the error list if the execution     *)
(* failed, else the info list; every active definition of it gets a       *)
(* goroutine, inactive ones are skipped.                                  *)
(***************************************************************************)
PerJobRun ==
    /\ jobErr # "none"
    /\ ~unwound
    /\ LET source == IF Failed THEN "error" ELSE "info"
           list == IF Failed THEN perJob.errorWebhooks ELSE perJob.infoWebhooks
       IN  SpawnAll(source, list, {k \in DOMAIN list : list[k].active})
    /\ unwound' = TRUE
    /\ UNCHANGED <<loaderVars, setting, perJob, jobErr, attempt, lastErr,
                   outcome, calls, accepted, sleeps>>

SystemNext ==
    \/ Load
    \/ BuildPerJob
    \/ RunJob
    \/ PerJobRun
    \/ \E t \in Tasks : DeliveryStep(t) /\ UNCHANGED systemVars

(***************************************************************************)
(* Start-up, construction and the middleware's resumption are synchronous *)
(* code, so they are weakly fair. The goroutines are fair as in            *)
(* WebhookDelivery. The job itself need not return.                        *)
(***************************************************************************)
SystemSpec ==
    /\ SystemInit /\ [][SystemNext]_vars
    /\ WF_vars(Load) /\ WF_vars(BuildPerJob) /\ WF_vars(PerJobRun)
    /\ DeliveryFairness

-----------------------------------------------------------------------------
(***************************************************************************)
(* Properties                                                             *)
(***************************************************************************)

\* The names the setting of list source gives, as parseWebhookNames reads them.
Referenced(source) ==
    ParseWebhookNames(IF source = "error" THEN setting.errorNames
                                          ELSE setting.infoNames)

(***************************************************************************)
(* spec.md 4.5: a per-job goroutine is only ever spawned for the list the  *)
(* job's outcome selects (error-names iff the execution failed), for a     *)
(* name that the loaded registry holds exactly, whose definition there is *)
(* active and of a type that list accepts (error or all; info or all).    *)
(* This relates three components: the file the loader read, the settings *)
(* construction resolved, and what Run spawned.                           *)
(***************************************************************************)
FiredAsConfigured ==
    \A t \in Tasks :
        pc[t] # "idle" =>
            LET names == Referenced(t[1])
                allowed == IF t[1] = "error" THEN {"error", "all"} ELSE {"info", "all"}
            IN  /\ (t[1] = "error") = Failed
                /\ t[2] \in DOMAIN names
                /\ ~names[t[2]].padded
                /\ names[t[2]].name \in DOMAIN registry
                /\ registry[names[t[2]].name].active
                /\ registry[names[t[2]].name].type \in allowed

\* The goroutine for t is the one PerJobWebhook.Run owes once the job has
\* returned: an active definition of the list for the outcome.
Owed(t) ==
    LET list == IF t[1] = "error" THEN perJob.errorWebhooks ELSE perJob.infoWebhooks
    IN  /\ perJob.result = "ok"
        /\ jobErr # "none"
        /\ (t[1] = "error") = Failed
        /\ t[2] \in DOMAIN list
        /\ list[t[2]].active

(***************************************************************************)
(* spec.md 4.5 and 5: once the job returns, every active definition of the *)
(* selected list is handed to a goroutine, and every such goroutine       *)
(* returns, whatever the endpoints do.                                     *)
(***************************************************************************)
OwedWebhooksFinish ==
    \A t \in Tasks : Owed(t) ~> pc[t] = "done"

(***************************************************************************)
(* spec.md 4.1 keeps in the registry the definitions whose dispatcher      *)
(* could not be built "so per-job lookups can still validate against      *)
(* type", and 4.5 accepts any such reference; a per-job goroutine for an  *)
(* accepted reference is then expected to deliver, never to fail building *)
(* its Webhook.                                                            *)
(***************************************************************************)
AcceptedReferencesBuild ==
    \A t \in Tasks : outcome[t] # "create_error"

=============================================================================
