# TLA+ models of the ofelia webhook middleware

This directory models the webhook notification subsystem in `src/`.
After a scheduled job finishes, it renders templated HTTP requests and
sends them to external endpoints, with retries.

## The system

### Components and their state

| Component | Source | State | Operations |
|---|---|---|---|
| Definition registry and loader | `src/unnamed/part_000` 1-196 | `WebhookRegistry.webhooks` (name → definition), written once at start-up | `LoadWebhookMiddlewares`, `parseWebhookConfigFile`, `validateWebhookType`, `Register`, `Get`, `GetAll` |
| Per-job construction (`PerJobConfig`) | `src/unnamed/part_000` 198-292 | the resolved `errorWebhooks`/`infoWebhooks` lists | `NewWebhookFromConfig`, `parseWebhookNames` |
| Global dispatcher | `src/middlewares/webhook.go` 13-114 | one immutable `Webhook` per loaded definition | `NewWebhookFromDefinition`, `Run` |
| Per-job dispatcher | `src/middlewares/webhook_perjob.go` | `PerJobWebhook` (two lists) | `Run`, `sendWebhook` |
| Delivery engine | `src/middlewares/webhook.go` 116-214 | goroutine locals: `attempt`, `backoff`, `lastErr` | `sendWebhook`, `sendWithRetry`, `sendRequest` |
| Template engine (`WebhookTemplate`, `ExecutionSnapshot`) | `src/unnamed/part_000` 419-654 | none (pure) | `buildTemplateData`, helpers, `executeTemplate`, `executeTemplateForBody` |
| Older loader copy | `src/unnamed/part_000` 293-418 | — | an earlier `webhook_config.go` without types, active flags or registry; superseded |

The core scheduler (`core.Context`, `core.Execution`, `core.Middleware`) is
not in `src/`. It appears only as `spec.md` describes it: a chain of
middlewares around the job, and a mutable execution record. For
`ctx.Stop` the model follows ofelia's `core.Context.Stop`, which does
nothing once the execution has stopped.

### How they interact

At start-up the loader reads the JSON file. It validates every entry, and
one bad entry aborts the whole file. It applies defaults, sorts the entries
by priority, registers every entry by name, and builds one global `Webhook`
middleware per entry. An entry whose backoff does not parse gets no global
middleware, but it stays in the registry.

A job with `webhook-error-names`/`webhook-info-names` gets a
`PerJobWebhook`. Its constructor resolves the names against the registry
and checks their types.

When the job runs, each middleware's `Run` first calls `ctx.Next()`. That
call runs the rest of the chain and then the job. Only afterwards does the
middleware classify the outcome and start `go sendWebhook(...)`. So the
middlewares finish from the innermost outwards.

Each goroutine renders the templates from the live `ctx` and then runs the
retry loop. Nothing joins, tracks or cancels these goroutines. Their errors
are only logged, and the job's error is returned unchanged.

### What is hard

- **Concurrency.** Deliveries run as unjoined goroutines, concurrently with
  each other and with the rest of the middleware chain. They read `ctx`
  after `Run` has returned.
- **Failure.** An endpoint may answer 2xx, answer something else, fail at
  the transport level, or never answer. Only the `http.Client` timeout ends
  a call that gets no answer, and that client sets no deadline when its
  timeout is ≤ 0.
- **Retries.** The loop must make `retryCount+1` attempts, stop at the first
  2xx, and sleep a doubling backoff only between attempts. `retry.count`
  and `timeout` are not validated.
- **Ordering.** Priorities order the middleware list. Because decisions are
  taken after `ctx.Next()`, the spawn order is the reverse of that list.
  The sort is `sort.Slice`, which is not stable.
- **Configuration.** One invalid entry loses all webhooks. Duplicate names
  overwrite each other in the registry. A per-job reference to a definition
  whose backoff does not parse is accepted, then fails on every firing.

### What makes each component correct

- **Delivery.** It reports success only after a 2xx answer. It gives up
  after exactly `retryCount+1` failed attempts. Its sleeps are
  `b, 2b, 4b, …`, one fewer than its requests. It always terminates.
- **Dispatchers.** They spawn exactly the deliveries that the spec's
  classification selects, each once, and never change the job's result.
  Global webhooks run in ascending priority.
- **Loader.** It is fail-fast on invalid entries, applies defaults, sorts
  stably by priority, and registers every valid entry.
- **Templates.** Rendering is deterministic, the helpers meet their
  examples, and a structured body either stays valid JSON or fails.

## Modules

| Module | Models | Notes |
|---|---|---|
| `WebhookDelivery` | Delivery engine, one goroutine per task | Variables are functions over `Tasks`. There is one action per step: `CreateWebhook` (per-job only), `RenderTemplates`, `SendAttempt` (sleep, double, `NewRequest`, `client.Do`), `RetriesExhausted`, `Respond` (the endpoint), `ClientTimeout`. |
| `WebhookNotify` | The abstract promise of spec.md 4.4, 4.5 and 5 | After completion, exactly the selected webhooks are notified, and each notification finishes. |
| `WebhookDispatch` | The middleware chain around one job run, composing both dispatchers with `WebhookDelivery` | `RunJob` (the innermost `ctx.Next`), then `GlobalRun(m)`/`PerJobRun(m)` unwinding from the innermost middleware, and delivery steps interleaved throughout. It refines `WebhookNotify`. |
| `WebhookLoader` | `LoadWebhookMiddlewares` and `parseWebhookConfigFile` | `file` is the input and is fixed for a behaviour. `LoadFile` covers stat, parse, validate, default and sort, up to the loop. `RegisterEntry` is one loop iteration: `Register`, then `NewWebhookFromDefinition`, which skips the middleware when the backoff does not parse. `registry` is the name → definition map. `chain` is the returned middlewares, as definitions, in order. `sort.Slice` is `SortSliceOutcomes`: insertion sort for 12 entries or fewer, as the Go runtime does, and any priority-sorted arrangement above that. |
| `PerJobConfig` | `parseWebhookNames` and `NewWebhookFromConfig` | These are pure operators, because construction is one synchronous call with no state of its own. A setting is abstracted to its form and a list of name tokens. The forms are `""`, a JSON array, and anything else, which is read as a comma list. A token is a name, possibly padded with blanks, or the empty name. JSON keeps tokens as written; the comma form trims each part and drops empty parts. `NewWebhookFromConfig` returns `nil`, `error` (an unknown name, or a type mismatch) or `ok` with the resolved lists. |
| `WebhookSystem` | The per-job path end to end | It instantiates `WebhookLoader` (as `Loader`, with its `pc` and `i` renamed) and extends `WebhookDelivery` and `PerJobConfig`. The steps are `Load` (a loader step), `BuildPerJob` (`NewWebhookFromConfig` on the loaded registry), `RunJob`, `PerJobRun` (spawn every active definition of the selected list), and the delivery steps of the spawned goroutines. Task `<<list, k>>` is the goroutine for the k-th name of the error list or the info list. |
| `WebhookTemplate` | Body rendering: `executeTemplateForBody`, `executeTemplate`, `jsonEscapeString`, `jsonEncode`, `defaultValue` | Text is a sequence over five character classes that JSON treats differently: plain, `<`, `"`, `\` and newline. A template is a sequence of text and actions on one field: `{{.F}}`, `jsonEscape`, `json`, and `default` with a quoted or a backquoted argument. An object body is modelled by one of its string values. `json.Marshal` escapes the text, and an action holding a quoted argument no longer parses. `Unquote` is `json.Unmarshal` of the rendered string value. It rejects every raw `"`, so it is stricter than `json.Unmarshal` of a whole object: a value that closes the string early and adds members is not modelled. `Render` is the body step of `sendWebhook`. |
| `ExecutionSnapshot` | The execution record under the middleware chain: `ctx.Stop`, `buildTemplateData`, `statusCode`, `statusColorHex` | It extends `WebhookDispatch` with a clock `now`, the record `exec` and each goroutine's template data `data[t]`. `SnapMiddlewareRun(m)` is a middleware's `Run`, with `ctx.Stop(err)` before its classification. `SnapRender(t)` is `buildTemplateData` on the live record, followed by the template step. `ctx.Stop` is modelled from spec.md 6 and ofelia's `core.Context.Stop`: the first call records the duration and the outcome, and a later call does nothing. |
| `MC_*` | Model-checking instances | |

Correspondence:
- `pc[t]` is where goroutine `t` is.
- `attempt`, `backoff` and `lastErr` are the locals of `sendWithRetry`.
- `outcome` is what `sendWebhook` logs.
- `calls`, `accepted` and `sleeps` are history variables used by the
  properties.
- In `WebhookDispatch`:
  - `def` is the loaded definitions.
  - `jobErr` is the error the job returned.
  - `unwind` is the middleware whose `Run` resumes next.
  - `spawnOrder` is the order in which the `go` statements ran.
- Rendering is abstracted to whether it succeeds on the snapshot (`renders`).
- `http.NewRequest` is abstracted to whether it accepts the method and URL
  (`requestBuilds`).

## Runs

| Run | Expect | What it shows |
|---|---|---|
| `delivery_core` | pass | Two concurrent deliveries, over every kind × retry {0,2} × render/request success × parseable backoff, with the default timeout. Checked: `OutcomeMatchesAttempts` (success iff a 2xx answer, the first 2xx ends the goroutine, giving up only after exactly `retryCount+1` requests); `BackoffBetweenAttempts` (sleeps `b,2b,…`, one fewer than requests); `DeliveryTerminates`. |
| `delivery_negative_retry` | violation | With `retry.count = -1` the goroutine logs success with zero requests. |
| `dispatch_priority_order` | violation | The priority-1 webhook is spawned before the priority-0 one. |
| `dispatch_untyped_definitions` | violation | One global webhook built as `webhook_test.go` builds it: no `Type`, no `Active`, `onlyOnError` either way. After the job returns nil or an error, `Run` spawns no delivery, where the tests expect the endpoint to be called. |
| `loader_load` | pass | Covers a missing file, an unparsable file, and every list of up to three entries. The entries range over valid ones (two names, two priorities, both backoff outcomes), one without a url, one without a type, and one with an unknown type. `LoadMatchesFile` checks four things. Loading is all-or-nothing. The chain is the stable priority order of the entries whose backoff parses. The registry holds every name of the file. A duplicated name keeps its last entry in sorted order. |
| `loader_typeless_entries` | violation | The file of `TestParseWebhookConfigFile`: two entries with a url and no type. The test expects both definitions; the loader rejects the file and registers nothing. |
| `system_perjob` | pass | Covers a missing file and every file of two definitions, over all types and active flags. Each of the two settings takes five forms: empty, `["a"]`, `" a ,b"`, `[" a"]` and `",b"`. `FiredAsConfigured`: a goroutine is spawned only for the list the outcome selects, and only for a name the registry holds exactly whose definition is active and of a type that list accepts. `OwedWebhooksFinish`: once the job returns, every active definition of the selected list gets a goroutine, and that goroutine returns. |
| `system_unbuildable_reference` | violation | Every definition has a `retry.backoff` that does not parse. A per-job reference to one is accepted, and its goroutine ends in `create_error`. |
| `template_escaped` | pass | Covers every string and object body of up to two segments, and every field value of up to two characters. `EscapedValuesRoundTrip`: an object body whose actions all use `jsonEscape` renders, and what it sends decodes to exactly its text and the value. |
| `template_raw_value_altered` | violation | The value `\"`, put raw into an object body with `{{.F}}`, passes the JSON check and is sent decoded as `"`. |
| `template_quoted_argument` | violation | An object body with `{{.Error \| default ""}}`, as in docs/webhooks.md, fails to parse on every render. |
| `snapshot_status` | pass | Two global middlewares (priority 0 and 1) and a per-job one (error-set `<<d3>>`, info-set `<<d2>>`). It covers every type, active and onlyOnError assignment that the per-job constructor accepts, every job outcome, and one clock tick. `NotifyRefinement`: the composition implements `WebhookNotify`, liveness included. `RenderedAsClassified`: whatever the interleaving of the goroutines' `buildTemplateData` with the outer `ctx.Stop` calls, every delivery renders the outcome its dispatcher decided on. This covers `IsRunning`, `Failed`, `HasError`, `Success`, `statusCode` and `colorHex`. `SnapshotShared`: all deliveries of the run render the same data, `Duration` and `EndTime` included, although each builds it from the live record while the clock runs and the outer middlewares call `ctx.Stop` again. A `Stop` without its stopped check breaks it. |

**Bounds.**
- Two tasks are enough for the delivery questions, because the tasks
  share nothing.
- Retry counts 0 and 2 cover the three loop cases: no retry, a first
  sleep, and a doubled sleep.
- Three definitions and three middlewares cover every source of a task
  (global, error-set, info-set) and every unwinding order.
- For the loader, three entries over two names and two priorities give
  duplicate names, ties, out-of-order priorities, and an invalid entry
  after valid ones. No run has thirteen entries, the smallest length at
  which `sort.Slice` leaves insertion sort. The loader runs once and
  sequentially, so its only fairness is that start-up proceeds.
- For the system, two definitions and two slots per list allow several
  cases: a list with an inactive definition before an active one, a
  type mismatch, an unknown name, a padded name, and an empty part. A
  retry count of 0 is enough there, because `WebhookDelivery` already
  checks the retry loop.
- For templates, two segments and two characters are enough to reach
  several cases: an action next to text, a value with an escape pair
  (`\"`), an empty value (`default`), and every helper in both body forms.
- For the snapshot, one clock tick is enough. A tick between two
  middlewares' `Stop` calls, with one goroutine rendering before it and
  one after, is what a re-measuring `Stop` needs to split the renders.
- The two test-expectation runs use the inputs of the tests themselves:
  the two-entry file of `TestParseWebhookConfigFile`, and one global
  definition with `Type` and `Active` unset.
- One job completion per behaviour is enough: separate completions share
  no state in this code. Each run builds its own `ctx`, and the registry
  is read-only.

**Fairness.**
- Each goroutine's own steps are weakly fair, because the Go scheduler
  runs every runnable goroutine.
- The client deadline is weakly fair, because time passes.
- The endpoint is not fair, because it may never answer.
- The resumption of each middleware is weakly fair, because it is a
  synchronous return.
- Loading and per-job construction are start-up code that runs to its
  end, so they are weakly fair too (`WebhookSystem`).
- The job itself is not assumed to finish.

`CHECK_DEADLOCK FALSE` is set because every behaviour ends when all
goroutines have returned.

## Findings

1. **Negative `retry.count` reports success** (`webhook.go:163`). The
   count is not validated. With a negative count the loop never runs and
   `sendWebhook` logs "sent successfully" without any request.
2. **Priority order is reversed** (`webhook.go:79`). spec.md and
   docs/webhooks.md say lower priority numbers execute first. Because
   `Run` decides after `ctx.Next()`, the last (highest-number) middleware
   spawns first. The goroutines then race, so no order holds for the HTTP
   requests either.

3. **A per-job reference that can never deliver** (`webhook_perjob.go:50`).
   spec.md 4.1 keeps definitions whose dispatcher cannot be built in the
   registry, "so per-job lookups can still validate". `NewWebhookFromConfig`
   accepts them. The goroutine then rebuilds the `Webhook` from the same
   definition and fails on the same unparsable backoff, every time the
   webhook fires. The error only reaches the log, at run time.

4. **The object-body check lets altered content through**
   (`part_000:643`). After rendering, the body is only checked to parse
   as JSON. A raw value containing `\"` or `\\` still parses, and the
   endpoint receives a different string. Only `jsonEscape` makes a value
   safe, and the docs' examples write `.JobName`,
   `.Duration` and `.Error` raw.
5. **Quoted helper arguments break object bodies** (`part_000:632`). The
   object is `json.Marshal`ed before it is parsed as a template. So
   `default "..."` or `formatTime "..."` inside a string value becomes
   `default \"...\"`, which `template.Parse` rejects. The Custom
   Monitoring API example of docs/webhooks.md fails on every firing.
6. **The documented and tested definition format loads nothing**
   (`part_000:175`). `TestParseWebhookConfigFile` expects a file of two
   entries without `type` to parse into two definitions, and the Quick
   Start of docs/webhooks.md writes its only entry without `type` (its
   field table lists no `type` either). `parseWebhookConfigFile` rejects
   such an entry, and with it the whole file.
7. **Definitions without `Active` and `Type` never fire** (`webhook.go:83`).
   `TestSimpleTextWebhook`, `TestJSONWebhook`, `TestTemplatedURL`,
   `TestTemplatedHeaders`, `TestRetryLogic` and `TestOnlyOnError` build a
   `WebhookDefinition` with neither field set and expect the endpoint to
   be called. `Run` returns at once for an inactive definition, and an
   empty type matches no branch of `shouldSend` either. Those tests cannot
   pass against this code.

### Known issues without a run

The model found these issues, but no run checks them. The runs above
enumerate only the defaulted timeout and files of up to three entries.
- **A negative `timeout` removes the timeout** (`part_000:186`). Only 0 is
  defaulted, and a negative `http.Client.Timeout` means no deadline.
  `DeliveryTerminates` fails for such a definition against a silent
  endpoint.
- **`sort.Slice` is not stable** (`part_000:133`). Up to 12 definitions,
  the Go runtime uses insertion sort and ties keep file order. Above 12,
  pattern-defeating quicksort may reorder entries of equal priority.
  `SortSliceOutcomes` models both cases, and `LoadMatchesFile` fails on a
  file of thirteen entries with a tie.
- **`truncate` counts bytes, not characters** (`part_000:541`). The docs
  say "Truncate to N characters". `len(s)` and `s[:k]` count bytes, so a
  multi-byte character at the cut is split, and the field ends in invalid
  UTF-8. This is read from the code; `truncate` has no module.

## Not modelled (yet) and why

- **`truncate` and the other string helpers.** `truncate` cuts bytes
  (see above); no run checks it.
- **HTTP I/O, and `text/template` and JSON beyond one string value.**
  These are out of TLC's reach as code. `WebhookTemplate` models what
  marshalling, parsing and unmarshalling do to the characters of one
  object string value. Elsewhere, rendering is abstracted to success or
  failure. Not modelled: URL and header templates, and `upper`, `lower`, `trim`,
  `formatTime` and `unixTime`. These helpers call a library function
  directly and have no branch of their own.
- **`core`.** It is not in this repository. `ExecutionSnapshot` takes
  `ctx.Stop` as ofelia's `core.Context.Stop` has it; `SnapshotShared`
  holds only as long as `Stop` keeps its stopped check.
- **The older loader copy** (`part_000` 293-418). It is an earlier version
  of `webhook_config.go` that cannot compile beside the current one.
- **Logging, path resolution and `os.Stat`.** These are I/O with no state
  that a property distinguishes.

## Plan

1. **`WebhookLoader`** is done: see `loader_load`.
2. **`PerJobConfig`** is done.
3. **`WebhookSystem`** is done for the per-job path: see `system_perjob`
   and `system_unbuildable_reference`. Still open: the global
   middlewares taken from the loader's chain (today `WebhookDispatch`
   takes them as constants), and the docs' Quick Start file.
4. **`WebhookTemplate`** is done for body rendering. Still open:
   `truncate` on UTF-8 bytes.
5. **`ExecutionSnapshot`** is done. Still open: taking the global
   middlewares of `WebhookDispatch` from the loader's chain, which would
   merge it with `WebhookSystem`.
