\* Two global webhooks and a per-job webhook set around one job run, over
\* every definition setting, every job outcome and every timing of the
\* Stop calls and the goroutines' buildTemplateData within one tick.
CONSTANTS
    d1 = d1
    d2 = d2
    d3 = d3
    Defs <- MCDefs
    Priority <- MCPriority
    DeliveryOf <- MCDeliveryOf
    Chain <- MCChain
    ErrorNames <- MCErrorNames
    InfoNames <- MCInfoNames
    Tasks <- MCTasks
    Configs <- MCConfigs
    MaxTime = 1

SPECIFICATION SnapSpec

INVARIANT RenderedAsClassified
INVARIANT SnapshotShared

PROPERTY NotifyRefinement

\* Once every goroutine has returned and the clock has stopped nothing is
\* enabled.
CHECK_DEADLOCK FALSE
