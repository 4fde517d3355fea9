\* Files whose definitions all have a retry.backoff that does not parse.
CONSTANTS
    a = a
    b = b
    Names = {a, b}
    Tasks <- MCTasks
    Configs <- MCConfigs
    Files <- MCBadBackoffFiles
    Settings <- MCSettings

SPECIFICATION SystemSpec

INVARIANT AcceptedReferencesBuild

\* A behaviour ends when construction fails or every goroutine has returned.
CHECK_DEADLOCK FALSE
