\* Two concurrent deliveries with valid settings.
CONSTANTS
    Tasks = {t1, t2}
    Configs <- MCConfigs

SPECIFICATION Spec

INVARIANT DeliveryTypeOK
INVARIANT OutcomeMatchesAttempts
INVARIANT BackoffBetweenAttempts
PROPERTY DeliveryTerminates

\* Every goroutine returns, after which nothing is enabled.
CHECK_DEADLOCK FALSE
