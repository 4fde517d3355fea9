\* One global webhook built as webhook_test.go builds it (no Type, no
\* Active) around one job run: is its delivery spawned?
CONSTANTS
    d1 = d1
    d2 = d2
    d3 = d3
    Defs <- MCDefs
    Priority <- MCPriority
    DeliveryOf <- MCDeliveryOf
    Chain <- MCTestChain
    ErrorNames <- MCNoNames
    InfoNames <- MCNoNames
    Tasks <- MCTestTasks
    Configs <- MCConfigs
    Definition <- MCTestDefinition

SPECIFICATION DispatchSpec

INVARIANT UntypedDefinitionsDelivered

\* Once every goroutine has returned nothing is enabled.
CHECK_DEADLOCK FALSE
