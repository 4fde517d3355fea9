-------------------------- MODULE WebhookDelivery --------------------------
(***************************************************************************)
(* The delivery engine of the webhook middleware: the goroutine that      *)
(* sendWebhook (webhook.go) or PerJobWebhook.sendWebhook                   *)
(* (webhook_perjob.go) runs for one definition after one job completion.  *)
(* It renders the templates once, then runs the retry loop of             *)
(* sendWithRetry, each iteration calling sendRequest.                     *)
(*                                                                         *)
(* Every task is an independent goroutine; the tasks share nothing but    *)
(* the read-only execution snapshot, so their steps interleave freely.    *)
(* The HTTP endpoint is the environment: it may answer 2xx, answer        *)
(* anything else, fail at the transport level, or never answer; in the    *)
(* last case only the http.Client timeout ends the call.                  *)
(***************************************************************************)
EXTENDS Integers, Sequences

CONSTANTS
    Tasks,      \* the delivery goroutines that may be spawned
    Configs     \* the delivery settings a task may have (see Config)

(***************************************************************************)
(* The part of a Webhook (webhook.go) or WebhookDefinition that the        *)
(* delivery depends on.                                                    *)
(*   kind          "global": spawned by Webhook.Run, whose Webhook was     *)
(*                 already built by NewWebhookFromDefinition;              *)
(*                 "perjob": spawned by PerJobWebhook.Run, which builds    *)
(*                 the Webhook inside the goroutine.                       *)
(*   retryCount    w.retryCount (def.Retry.Count, unvalidated, or 0).      *)
(*   backoff       w.retryBackoff, in units of the configured duration.    *)
(*   backoffParses time.ParseDuration(def.Retry.Backoff) succeeds.        *)
(*   timeout       def.Timeout in seconds; client.Timeout = timeout*1s,    *)
(*                 and the client applies no deadline unless it is > 0.    *)
(*   renders       URL, body and every header template execute without    *)
(*                 error on the snapshot (and an object body stays JSON).  *)
(*   requestBuilds http.NewRequest accepts the method and rendered URL.    *)
(***************************************************************************)
Config == [kind: {"global", "perjob"}, retryCount: Int, backoff: Int,
           backoffParses: BOOLEAN, timeout: Int, renders: BOOLEAN,
           requestBuilds: BOOLEAN]

ASSUME Configs \subseteq Config

VARIABLES
    cfg,        \* cfg[t]: the settings of task t, fixed for the behaviour
    pc,         \* pc[t]: where goroutine t is
    attempt,    \* the loop variable of sendWithRetry
    backoff,    \* the local backoff of sendWithRetry
    lastErr,    \* lastErr of sendWithRetry: "nil" or "err"
    outcome,    \* what the goroutine logged when it returned
    calls,      \* history: sendRequest calls made by t
    accepted,   \* history: some request of t was answered 2xx
    sleeps      \* history: the durations passed to time.Sleep, in order

deliveryVars == <<cfg, pc, attempt, backoff, lastErr, outcome, calls,
                  accepted, sleeps>>

(*   "idle"     not spawned: the go statement has not run                  *)
(*   "create"   PerJobWebhook.sendWebhook, NewWebhookFromDefinition        *)
(*   "render"   buildTemplateData and the URL, body, header templates      *)
(*   "loop"     the head of the for loop in sendWithRetry                  *)
(*   "inflight" client.Do waiting for the endpoint                         *)
(*   "done"     the goroutine has returned                                 *)
PC == {"idle", "create", "render", "loop", "inflight", "done"}

Outcome == {"none", "create_error", "render_error", "sent", "failed"}

\* The first statement a spawned goroutine executes.
StartPC(c) == IF c.kind = "perjob" THEN "create" ELSE "render"

DeliveryTypeOK ==
    /\ cfg \in [Tasks -> Configs]
    /\ pc \in [Tasks -> PC]
    /\ attempt \in [Tasks -> Nat]
    /\ backoff \in [Tasks -> Int]
    /\ lastErr \in [Tasks -> {"nil", "err"}]
    /\ outcome \in [Tasks -> Outcome]
    /\ calls \in [Tasks -> Nat]
    /\ accepted \in [Tasks -> BOOLEAN]
    /\ sleeps \in [Tasks -> Seq(Int)]

\* The locals of sendWithRetry before the loop (lastErr = nil, backoff =
\* w.retryBackoff) and the empty histories, for tasks with settings cfg.
DeliveryInit ==
    /\ attempt = [t \in Tasks |-> 0]
    /\ backoff = [t \in Tasks |-> cfg[t].backoff]
    /\ lastErr = [t \in Tasks |-> "nil"]
    /\ outcome = [t \in Tasks |-> "none"]
    /\ calls = [t \in Tasks |-> 0]
    /\ accepted = [t \in Tasks |-> FALSE]
    /\ sleeps = [t \in Tasks |-> <<>>]

\* Every task spawned with any of the settings in Configs.
Init ==
    /\ cfg \in [Tasks -> Configs]
    /\ pc = [t \in Tasks |-> StartPC(cfg[t])]
    /\ DeliveryInit

\* The goroutine returns, having logged o.
Finish(t, o) ==
    /\ pc' = [pc EXCEPT ![t] = "done"]
    /\ outcome' = [outcome EXCEPT ![t] = o]

(***************************************************************************)
(* PerJobWebhook.sendWebhook builds the Webhook from the definition inside *)
(* the goroutine; a backoff that does not parse ends the task here.        *)
(***************************************************************************)
CreateWebhook(t) ==
    /\ pc[t] = "create"
    /\ IF cfg[t].backoffParses
         THEN /\ pc' = [pc EXCEPT ![t] = "render"]
              /\ UNCHANGED outcome
         ELSE Finish(t, "create_error")
    /\ UNCHANGED <<cfg, attempt, backoff, lastErr, calls, accepted, sleeps>>

(***************************************************************************)
(* buildTemplateData, then executeTemplate on the URL, executeTemplate-    *)
(* ForBody on the body and executeTemplate on every header: the first     *)
(* error returns from the goroutine before any request is made.           *)
(***************************************************************************)
RenderTemplates(t) ==
    /\ pc[t] = "render"
    /\ IF cfg[t].renders
         THEN /\ pc' = [pc EXCEPT ![t] = "loop"]
              /\ UNCHANGED outcome
         ELSE Finish(t, "render_error")
    /\ UNCHANGED <<cfg, attempt, backoff, lastErr, calls, accepted, sleeps>>

\* Mutant: the loop condition is attempt < retryCount, one request short.
LoopConditionOffByOne(t) == attempt[t] < cfg[t].retryCount

\* The condition of the for loop of sendWithRetry.
LoopCondition(t) == attempt[t] <= cfg[t].retryCount

\* Mutant: backoff is doubled before the sleep instead of after it.
SendAttemptDoubleFirst(t) ==
    /\ pc[t] = "loop"
    /\ LoopCondition(t)
    /\ IF attempt[t] > 0
         THEN /\ sleeps' = [sleeps EXCEPT ![t] = Append(@, 2 * backoff[t])]
              /\ backoff' = [backoff EXCEPT ![t] = 2 * @]
         ELSE UNCHANGED <<sleeps, backoff>>
    /\ calls' = [calls EXCEPT ![t] = @ + 1]
    /\ IF cfg[t].requestBuilds
         THEN /\ pc' = [pc EXCEPT ![t] = "inflight"]
              /\ UNCHANGED <<attempt, lastErr>>
         ELSE /\ lastErr' = [lastErr EXCEPT ![t] = "err"]
              /\ attempt' = [attempt EXCEPT ![t] = @ + 1]
              /\ UNCHANGED pc
    /\ UNCHANGED <<cfg, outcome, accepted>>

(***************************************************************************)
(* One iteration of the loop of sendWithRetry while attempt <= retryCount: *)
(* after the first, time.Sleep(backoff) then backoff *= 2; then            *)
(* sendRequest. A request http.NewRequest rejects fails at once and the   *)
(* loop goes on; otherwise client.Do is in flight.                         *)
(***************************************************************************)
SendAttempt(t) ==
    /\ pc[t] = "loop"
    /\ LoopCondition(t)
    /\ IF attempt[t] > 0
         THEN /\ sleeps' = [sleeps EXCEPT ![t] = Append(@, backoff[t])]
              /\ backoff' = [backoff EXCEPT ![t] = 2 * @]
         ELSE UNCHANGED <<sleeps, backoff>>
    /\ calls' = [calls EXCEPT ![t] = @ + 1]
    /\ IF cfg[t].requestBuilds
         THEN /\ pc' = [pc EXCEPT ![t] = "inflight"]
              /\ UNCHANGED <<attempt, lastErr>>
         ELSE /\ lastErr' = [lastErr EXCEPT ![t] = "err"]
              /\ attempt' = [attempt EXCEPT ![t] = @ + 1]
              /\ UNCHANGED pc
    /\ UNCHANGED <<cfg, outcome, accepted>>

\* Mutant: the goroutine records sendWithRetry's raw error value.
RetriesExhaustedRawErr(t) ==
    /\ pc[t] = "loop"
    /\ ~LoopCondition(t)
    /\ Finish(t, lastErr[t])
    /\ UNCHANGED <<cfg, attempt, backoff, lastErr, calls, accepted, sleeps>>

(***************************************************************************)
(* The loop condition fails: sendWithRetry returns lastErr and sendWebhook *)
(* logs "sent successfully" when it is nil, "failed after ..." otherwise.  *)
(***************************************************************************)
RetriesExhausted(t) ==
    /\ pc[t] = "loop"
    /\ ~LoopCondition(t)
    /\ Finish(t, IF lastErr[t] = "nil" THEN "sent" ELSE "failed")
    /\ UNCHANGED <<cfg, attempt, backoff, lastErr, calls, accepted, sleeps>>

(***************************************************************************)
(* The endpoint answers. A status in [200,300) makes sendRequest return    *)
(* nil and sendWithRetry return at once; any other status, or a transport *)
(* error, is an error for this attempt and the loop goes on.              *)
(***************************************************************************)
Respond(t) ==
    /\ pc[t] = "inflight"
    /\ \E ok \in BOOLEAN :
         IF ok
           THEN /\ Finish(t, "sent")
                /\ accepted' = [accepted EXCEPT ![t] = TRUE]
                /\ UNCHANGED <<attempt, lastErr>>
           ELSE /\ pc' = [pc EXCEPT ![t] = "loop"]
                /\ lastErr' = [lastErr EXCEPT ![t] = "err"]
                /\ attempt' = [attempt EXCEPT ![t] = @ + 1]
                /\ UNCHANGED <<outcome, accepted>>
    /\ UNCHANGED <<cfg, backoff, calls, sleeps>>

\* Mutant: the http.Client is built without a Timeout, so no deadline.
ClientTimeoutUnset(t) ==
    /\ pc[t] = "inflight"
    /\ FALSE
    /\ UNCHANGED <<cfg, pc, attempt, backoff, lastErr, outcome, calls,
                   accepted, sleeps>>

(***************************************************************************)
(* The http.Client deadline passes before an answer: client.Do returns an  *)
(* error. The client only sets a deadline when its Timeout is positive.   *)
(***************************************************************************)
ClientTimeout(t) ==
    /\ pc[t] = "inflight"
    /\ cfg[t].timeout > 0
    /\ pc' = [pc EXCEPT ![t] = "loop"]
    /\ lastErr' = [lastErr EXCEPT ![t] = "err"]
    /\ attempt' = [attempt EXCEPT ![t] = @ + 1]
    /\ UNCHANGED <<cfg, backoff, outcome, calls, accepted, sleeps>>

\* The steps goroutine t takes by itself, without the endpoint.
TaskStep(t) ==
    \/ CreateWebhook(t)
    \/ RenderTemplates(t)
    \/ SendAttempt(t)
    \/ RetriesExhausted(t)

DeliveryStep(t) == TaskStep(t) \/ Respond(t) \/ ClientTimeout(t)

DeliveryNext == \E t \in Tasks : DeliveryStep(t)

(***************************************************************************)
(* Fairness. The Go scheduler runs every runnable goroutine eventually, so *)
(* a task's own steps are weakly fair; time passes, so a deadline that is  *)
(* set eventually fires. The endpoint is not fair: it may never answer.   *)
(***************************************************************************)
DeliveryFairness ==
    \A t \in Tasks : WF_deliveryVars(TaskStep(t)) /\ WF_deliveryVars(ClientTimeout(t))

Spec == Init /\ [][DeliveryNext]_deliveryVars /\ DeliveryFairness

-----------------------------------------------------------------------------
(***************************************************************************)
(* Properties                                                             *)
(***************************************************************************)

(***************************************************************************)
(* sendWithRetry reports what happened: a goroutine logs "sent             *)
(* successfully" only when an endpoint answered 2xx, an answer 2xx ends    *)
(* the goroutine with no further request, and one that logs "failed after *)
(* N attempts" made exactly retryCount+1 requests.                         *)
(***************************************************************************)
OutcomeMatchesAttempts ==
    \A t \in Tasks :
        /\ outcome[t] = "sent" <=> accepted[t]
        /\ accepted[t] => pc[t] = "done"
        /\ outcome[t] = "failed" => calls[t] = cfg[t].retryCount + 1

(***************************************************************************)
(* The retry loop sleeps only between attempts, never before the first or  *)
(* after the last, and the sleeps are the configured backoff doubled each  *)
(* time: sleeps = <<b, 2b, 4b, ...>> with one fewer sleep than requests.   *)
(***************************************************************************)
BackoffBetweenAttempts ==
    \A t \in Tasks :
        /\ Len(sleeps[t]) = IF calls[t] = 0 THEN 0 ELSE calls[t] - 1
        /\ \A i \in 1..Len(sleeps[t]) : sleeps[t][i] = cfg[t].backoff * 2^(i - 1)

(***************************************************************************)
(* Every spawned delivery goroutine eventually returns, whatever the       *)
(* endpoint does: the client timeout bounds every request and the retry   *)
(* count bounds the loop.                                                  *)
(***************************************************************************)
DeliveryTerminates ==
    \A t \in Tasks : pc[t] # "idle" ~> pc[t] = "done"

=============================================================================
