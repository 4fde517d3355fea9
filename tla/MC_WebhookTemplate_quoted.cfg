\* Every body of up to two segments on every value of up to two characters.
CONSTANTS
    Bodies <- MCBodies
    Values <- MCValues

SPECIFICATION Spec

INVARIANT DocumentedHelpersRender

\* A behaviour ends once the body is rendered.
CHECK_DEADLOCK FALSE
