------------------------- MODULE ExecutionSnapshot -------------------------
(***************************************************************************)
(* The execution record that the webhook goroutines render from, added to *)
(* the middleware chain of WebhookDispatch.                                *)
(*                                                                         *)
(* Every middleware's Run calls ctx.Stop(err) once its ctx.Next() returns *)
(* (webhook.go, webhook_perjob.go). Each delivery goroutine calls          *)
(* buildTemplateData(ctx) itself, when it starts rendering. It reads the  *)
(* live ctx.Execution, by then possibly after Run has returned and while  *)
(* the outer middlewares are still calling ctx.Stop on the same record.   *)
(*                                                                         *)
(* core.Execution is not in this repository. Its record (start date,       *)
(* duration, running, failed and skipped flags, error) and the stop hook  *)
(* are modelled from spec.md 6 and from core.Context.Stop as ofelia has   *)
(* it: Stop does nothing once the execution is no longer running, so only *)
(* the first middleware to resume records the outcome. Time is a bounded  *)
(* clock.                                                                  *)
(***************************************************************************)
EXTENDS WebhookDispatch

CONSTANTS
    MaxTime     \* the clock stops here

VARIABLES
    now,        \* the wall clock
    exec,       \* ctx.Execution
    data        \* data[t]: the WebhookTemplateData goroutine t built

snapVars == <<now, exec, data>>
allVars == <<vars, snapVars>>

\* What data[t] is before goroutine t has called buildTemplateData.
NotBuilt == [built |-> FALSE]

(***************************************************************************)
(* ctx.Stop(err): nothing once the execution has stopped; otherwise        *)
(* core.Execution.Stop(err) marks it no longer running, records the       *)
(* duration, and marks it skipped for ErrSkippedExecution or failed with  *)
(* any other error.                                                        *)
(***************************************************************************)
\* Mutant: the stopped check is missing, so a later Stop measures the
\* duration again and adds its own error.
ExecutionStopRemeasuring(e, err) ==
    [e EXCEPT !.running = FALSE, !.duration = now - e.date,
              !.failed = @ \/ err = "error", !.skipped = @ \/ err = "skipped",
              !.error = IF err = "error" THEN "error" ELSE @]

ExecutionStop(e, err) ==
    IF ~e.running THEN e
    ELSE [e EXCEPT !.running = FALSE, !.duration = now - e.date,
                   !.failed = err = "error", !.skipped = err = "skipped",
                   !.error = IF err = "error" THEN "error" ELSE "nil"]

\* Mutant: Success is !Failed, whatever Skipped says.
BuildTemplateDataIgnoringSkipped(e) ==
    [built |-> TRUE, startTime |-> e.date, endTime |-> e.date + e.duration,
     duration |-> e.duration, isRunning |-> e.running, failed |-> e.failed,
     skipped |-> e.skipped, success |-> ~e.failed,
     error |-> e.error, hasError |-> e.error # "nil"]

(***************************************************************************)
(* buildTemplateData: the execution fields as they are when it runs.       *)
(* EndTime is Date plus Duration, Success is !Failed && !Skipped, and     *)
(* Error/HasError are set if Execution.Error is not nil. The job's name,  *)
(* schedule and command, the host name and the streams are left out: no  *)
(* property tells them apart.                                              *)
(***************************************************************************)
BuildTemplateData(e) ==
    [built |-> TRUE, startTime |-> e.date, endTime |-> e.date + e.duration,
     duration |-> e.duration, isRunning |-> e.running, failed |-> e.failed,
     skipped |-> e.skipped, success |-> ~e.failed /\ ~e.skipped,
     error |-> e.error, hasError |-> e.error # "nil"]

\* statusCode: 2 if skipped, 1 if failed, else 0.
StatusCode(d) == IF d.skipped THEN 2 ELSE IF d.failed THEN 1 ELSE 0

\* statusColorHex: orange if skipped, red if failed, else green.
StatusColorHex(d) ==
    IF d.skipped THEN "#FFA500" ELSE IF d.failed THEN "#FF0000" ELSE "#00FF00"

SnapInit ==
    /\ DispatchInit
    /\ now = 0
    /\ exec = [date |-> 0, duration |-> 0, running |-> TRUE, failed |-> FALSE,
               skipped |-> FALSE, error |-> "nil"]
    /\ data = [t \in Tasks |-> NotBuilt]

\* Time passes.
Tick ==
    /\ now < MaxTime
    /\ now' = now + 1
    /\ UNCHANGED <<vars, exec, data>>

\* Webhook.Run or PerJobWebhook.Run after ctx.Next(): ctx.Stop(err) comes
\* first, then the classification and the go statements.
SnapMiddlewareRun(m) ==
    /\ MiddlewareRun(m)
    /\ exec' = ExecutionStop(exec, jobErr)
    /\ UNCHANGED <<now, data>>

\* The goroutine's buildTemplateData, then its template execution.
SnapRender(t) ==
    /\ RenderTemplates(t)
    /\ data' = [data EXCEPT ![t] = BuildTemplateData(exec)]
    /\ UNCHANGED <<dispatchVars, now, exec>>

\* The rest of goroutine t: NewWebhookFromDefinition and the retry loop.
SnapTaskStep(t) ==
    /\ CreateWebhook(t) \/ SendAttempt(t) \/ RetriesExhausted(t)
    /\ UNCHANGED <<dispatchVars, snapVars>>

\* The endpoint answers, or the client's deadline fires.
SnapEndpoint(t) ==
    /\ Respond(t) \/ ClientTimeout(t)
    /\ UNCHANGED <<dispatchVars, snapVars>>

SnapNext ==
    \/ Tick
    \/ RunJob /\ UNCHANGED snapVars
    \/ \E m \in DOMAIN Chain : SnapMiddlewareRun(m)
    \/ \E t \in Tasks : SnapRender(t) \/ SnapTaskStep(t) \/ SnapEndpoint(t)

(***************************************************************************)
(* The fairness of DispatchSpec: each middleware resumes, each goroutine   *)
(* runs, and a deadline that is set fires. The clock need not advance.    *)
(***************************************************************************)
SnapSpec ==
    /\ SnapInit /\ [][SnapNext]_allVars
    /\ \A m \in DOMAIN Chain : WF_allVars(SnapMiddlewareRun(m))
    /\ \A t \in Tasks :
         /\ WF_allVars(SnapRender(t) \/ SnapTaskStep(t))
         /\ WF_allVars(ClientTimeout(t) /\ UNCHANGED <<dispatchVars, snapVars>>)

-----------------------------------------------------------------------------
(***************************************************************************)
(* Properties                                                             *)
(***************************************************************************)

\* statusCode of the job's outcome: the error the job returned.
OutcomeCode == CASE jobErr = "nil" -> 0 [] jobErr = "error" -> 1
                 [] jobErr = "skipped" -> 2

(***************************************************************************)
(* spec.md 2 and 3: what a delivery renders reports the outcome its       *)
(* dispatcher classified on. However the goroutine's buildTemplateData    *)
(* interleaves with the outer middlewares' ctx.Stop calls, the data it    *)
(* built says the execution is over, Failed and HasError hold exactly    *)
(* when the job returned an error, Success exactly when it returned nil, *)
(* and statusCode and colorHex name that same outcome.                    *)
(***************************************************************************)
RenderedAsClassified ==
    \A t \in Tasks : data[t].built =>
        /\ ~data[t].isRunning
        /\ data[t].failed = ExecutionFailed
        /\ data[t].hasError = ExecutionFailed
        /\ data[t].success = (jobErr = "nil")
        /\ StatusCode(data[t]) = OutcomeCode
        /\ StatusColorHex(data[t]) =
             CASE OutcomeCode = 0 -> "#00FF00" [] OutcomeCode = 1 -> "#FF0000"
               [] OutcomeCode = 2 -> "#FFA500"

(***************************************************************************)
(* spec.md 2 and 5: the template data is a snapshot "constructed exactly  *)
(* once per dispatch and immutable thereafter; multiple concurrent        *)
(* deliveries for the same job completion share the same snapshot". Each *)
(* goroutine builds its own data from the live ctx.Execution, at any time *)
(* after its middleware returned, while the clock runs and the outer      *)
(* middlewares call ctx.Stop again: all the deliveries of one job run    *)
(* still render the same data, its Duration and EndTime included.        *)
(***************************************************************************)
SnapshotShared ==
    \A t1, t2 \in Tasks : data[t1].built /\ data[t2].built => data[t1] = data[t2]

=============================================================================
