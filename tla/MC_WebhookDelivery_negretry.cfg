\* A definition whose retry.count is negative.
CONSTANTS
    Tasks = {t1}
    Configs <- MCNegativeRetryConfigs

SPECIFICATION Spec

INVARIANT OutcomeMatchesAttempts

CHECK_DEADLOCK FALSE
