\* Every file of up to three entries over two names and two priorities.
CONSTANTS
    a = a
    b = b
    Names = {a, b}
    Files <- MCFiles

SPECIFICATION Spec

INVARIANT LoadMatchesFile

\* Start-up ends once the file is loaded.
CHECK_DEADLOCK FALSE
