\* The loader, per-job construction and per-job dispatch of one job, over
\* two definitions and five forms of each setting.
CONSTANTS
    a = a
    b = b
    Names = {a, b}
    Tasks <- MCTasks
    Configs <- MCConfigs
    Files <- MCFiles
    Settings <- MCSettings

SPECIFICATION SystemSpec

INVARIANT FiredAsConfigured
PROPERTY OwedWebhooksFinish

\* A behaviour ends when construction fails or every goroutine has returned.
CHECK_DEADLOCK FALSE
