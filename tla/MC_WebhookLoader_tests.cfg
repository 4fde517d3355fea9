\* The file webhook_test.go TestParseWebhookConfigFile parses.
CONSTANTS
    a = a
    b = b
    Names = {a, b}
    Files <- MCTestFiles

SPECIFICATION Spec

INVARIANT TypelessEntriesLoad

\* Start-up ends once the file is loaded.
CHECK_DEADLOCK FALSE
