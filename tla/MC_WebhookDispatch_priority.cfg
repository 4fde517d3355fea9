\* Two global webhooks of priority 0 and 1 around one job run: the order
\* in which their deliveries are spawned.
CONSTANTS
    d1 = d1
    d2 = d2
    d3 = d3
    Defs <- MCDefs
    Priority <- MCPriority
    DeliveryOf <- MCDeliveryOf
    Chain <- MCChain
    ErrorNames <- MCErrorNames
    InfoNames <- MCInfoNames
    Tasks <- MCTasks
    Configs <- MCConfigs

SPECIFICATION DispatchSpec

INVARIANT SpawnedInPriorityOrder

\* Once every goroutine has returned nothing is enabled.
CHECK_DEADLOCK FALSE
